---- MODULE Spec2Model ----
(***************************************************************************)
(* The game server of esp32-battle-royale-tanks (the node.js part of       *)
(* src/esp32_tank_controller/esp32_tank_controller.ino, lines 958-2076) as *)
(* a state machine: the shared gameState, the websocket connections, the   *)
(* pending setTimeout callbacks and the clock.                             *)
(*                                                                         *)
(* Numbers are fixed point.  Lengths are in 1/1000 px, angles in 1/1000    *)
(* rad, times in ms and hit points in 1/6000 hp, so that every speed,      *)
(* damage and range of the source is an integer.                           *)
(***************************************************************************)
EXTENDS Integers, Sequences, FiniteSets, TLC

VARIABLES
    gameState,   \* tanks, bullets, obstacles, powerups, scoreboard, bannedIPs, bots
    clients,     \* wss.clients: connection id -> the ws object and its closure
    timers,      \* pending setTimeout callbacks
    now,         \* Date.now(), ms since the server started
    sched,       \* the due times of the setInterval callbacks and the run counters
    nextId,      \* the next fresh connection id and the next uuid
    rng,         \* the values Math.random() yields in the runs explored
    outbox,      \* the frames the last step sent
    last,        \* the last step: the callback that ran, its connection, its target
    controller   \* the controller firmware: its globals, its socket, what it last sent

vars == <<gameState, clients, timers, now, sched, nextId, rng, outbox, last, controller>>

-----------------------------------------------------------------------------
(* Units *)
Milli == 10 * 100            \* 1 px = 1000 length units; 1 rad = 1000 angle units
HpUnit == 6 * Milli          \* 1 hp = 6000 hit-point units
Px(n) == n * Milli
Hp(n) == n * HpUnit
Sec(n) == n * Milli

-----------------------------------------------------------------------------
(* CONFIG, src lines 972-993 *)
MAP_WIDTH == 2000
MAP_HEIGHT == 1200
TANK_SIZE == 70
BULLET_SPEED == 8
BULLET_SIZE == 8
BASE_TANK_SPEED == 3
BASE_FIRE_RATE == 500
BASE_DAMAGE == 25
BASE_HEALTH == 100
BASE_FIRE_RANGE == 500
SPAWN_PROTECTION_TIME == 5000
OBSTACLE_SPAWN_INTERVAL == 5000
POWERUP_SPAWN_INTERVAL == 8000
MAX_OBSTACLES == 30
MAX_POWERUPS == 5
ADMIN_PASSWORD == "TankDestroyer"
BOT_REACTION_TIME == 2000
HEARTBEAT_INTERVAL == 5000
HEARTBEAT_TIMEOUT == 15000

(* OBSTACLE_TYPES, src lines 1007-1012: hp, points, explosion in px and hp *)
OBSTACLE_TYPES ==
    [ TREE   |-> [hp |-> 30,  points |-> 5,  explosive |-> FALSE, containsPowerup |-> FALSE,
                  explosionRadius |-> 0, explosionDamage |-> 0],
      WALL   |-> [hp |-> 150, points |-> 10, explosive |-> FALSE, containsPowerup |-> FALSE,
                  explosionRadius |-> 0, explosionDamage |-> 0],
      BARREL |-> [hp |-> 20,  points |-> 5,  explosive |-> TRUE,  containsPowerup |-> FALSE,
                  explosionRadius |-> 150, explosionDamage |-> 100],
      CRATE  |-> [hp |-> 40,  points |-> 5,  explosive |-> FALSE, containsPowerup |-> TRUE,
                  explosionRadius |-> 0, explosionDamage |-> 0] ]

ObstacleTypeNames == {"TREE", "WALL", "BARREL", "CRATE"}

(* POWERUP_TYPES, src lines 1018-1025.  A multiplier is the fraction num/den; *)
(* duration is in seconds, 0 for "never expires".                             *)
POWERUP_TYPES ==
    [ SPEED         |-> [effect |-> "speed",      num |-> 13, den |-> 10, amount |-> 0,
                         duration |-> 0,  maxStacks |-> 3],
      POWER         |-> [effect |-> "damage",     num |-> 15, den |-> 10, amount |-> 0,
                         duration |-> 0,  maxStacks |-> 3],
      HEALTH        |-> [effect |-> "health",     num |-> 1,  den |-> 1,  amount |-> 50,
                         duration |-> 0,  maxStacks |-> 1],
      RANGE         |-> [effect |-> "range",      num |-> 13, den |-> 10, amount |-> 0,
                         duration |-> 0,  maxStacks |-> 3],
      INVINCIBILITY |-> [effect |-> "invincible", num |-> 1,  den |-> 1,  amount |-> 0,
                         duration |-> 10, maxStacks |-> 1],
      MYSTERY       |-> [effect |-> "mystery",    num |-> 1,  den |-> 1,  amount |-> 0,
                         duration |-> 0,  maxStacks |-> 1] ]

PowerupTypeNames == {"SPEED", "POWER", "HEALTH", "RANGE", "INVINCIBILITY", "MYSTERY"}

(* POWERUP_TYPES.MYSTERY.explosionRadius / explosionDamage, src line 1024 *)
MYSTERY_EXPLOSION_RADIUS == 120
MYSTERY_EXPLOSION_DAMAGE == 80
(* the crate bomb, src line 1647 *)
CRATE_BOMB_RADIUS == 60
CRATE_BOMB_DAMAGE == 30
(* Obstacle.size, src line 1329, and Powerup.size, src line 1347 *)
WALL_SIZE == 60
OBSTACLE_SIZE == 40
POWERUP_SIZE == 25
(* the points of a kill, src line 1606 *)
BOT_KILL_POINTS == 50
HUMAN_KILL_POINTS == 100
(* sanitizeTankName's cap, src line 1079 *)
NAME_CAP == 20

-----------------------------------------------------------------------------
(* Values of the source that are not numbers *)
Undefined == "undefined"     \* a missing field, an unset property
NoRecord == [undefined |-> TRUE]   \* undefined or null where the code reads a field of it
NoConn == 0                  \* tank.ws of a tank no connection was stored in (a bot)
NoTank == 0                  \* playerId === null
NoEnd == 0 - 1               \* tank.invincibilityEnd before the first INVINCIBILITY

Abs(n) == IF n < 0 THEN 0 - n ELSE n
Min(a, b) == IF a < b THEN a ELSE b
Max(a, b) == IF a > b THEN a ELSE b

(* NaN, the number that is no number: Math.cos(undefined), and whatever is *)
(* computed from it.  Sums and products with it are NaN, comparisons with  *)
(* it are false, and it is not equal to itself.                            *)
NaN == 0 - 1000000000
Plus(a, b) == IF a = NaN \/ b = NaN THEN NaN ELSE a + b
Minus(a, b) == IF a = NaN \/ b = NaN THEN NaN ELSE a - b
Lt(a, b) == a # NaN /\ b # NaN /\ a < b
Differ(a, b) == a = NaN \/ b = NaN \/ a # b

(* Date.now() counts from 1970, the clock of the model from the start of   *)
(* the server: the 0 that the constructors store in lastFire and           *)
(* lastDecision, src lines 1124 and 1356, lies further back than any       *)
(* interval the code compares it with                                      *)
LongAgo == 0 - Max(BOT_REACTION_TIME, BASE_FIRE_RATE)

(* a * b / den, rounded towards zero, for a fixed-point product *)
MulDiv(a, b, den) ==
    LET p == Abs(a) * Abs(b)
    IN  IF a = NaN \/ b = NaN THEN NaN
        ELSE IF (a < 0) = (b < 0) THEN p \div den ELSE 0 - (p \div den)

-----------------------------------------------------------------------------
(* distance, src lines 1082-1084.  A square of a length does not fit an    *)
(* integer of the checker, so squares are pairs <<hi, lo>> = hi*10^6 + lo.  *)
Mega == Milli * Milli
NaNPair == <<NaN, NaN>>

Sq(n) ==
    LET a == n \div Milli
        b == n % Milli
        m == 2 * a * b
        lo0 == (m % Milli) * Milli + b * b
    IN  IF n = NaN THEN NaNPair
        ELSE << a * a + (m \div Milli) + (lo0 \div Mega), lo0 % Mega >>

PairAdd(p, q) ==
    LET lo == p[2] + q[2]
    IN  IF p = NaNPair \/ q = NaNPair THEN NaNPair
        ELSE << p[1] + q[1] + (lo \div Mega), lo % Mega >>

PairLt(p, q) ==
    /\ p # NaNPair /\ q # NaNPair
    /\ p[1] < q[1] \/ (p[1] = q[1] /\ p[2] < q[2])
PairLe(p, q) == p # NaNPair /\ q # NaNPair /\ ~PairLt(q, p)

DistSq(a, b) ==
    IF NaN \in {a.x, a.y, b.x, b.y} THEN NaNPair
    ELSE PairAdd(Sq(Abs(a.x - b.x)), Sq(Abs(a.y - b.y)))

(* the largest d in lo..hi with d*d <= sq: the floor of the square root *)
RECURSIVE SqrtIn(_, _, _)
SqrtIn(sq, lo, hi) ==
    IF lo >= hi THEN lo
    ELSE LET mid == (lo + hi + 1) \div 2
         IN  IF PairLe(Sq(mid), sq) THEN SqrtIn(sq, mid, hi) ELSE SqrtIn(sq, lo, mid - 1)

distance(a, b) ==
    IF DistSq(a, b) = NaNPair THEN NaN
    ELSE SqrtIn(DistSq(a, b), 0, Px(MAP_WIDTH + MAP_HEIGHT))

(* distance(a, b) < d, for d in length units: decided on the squares *)
DistLt(a, b, d) == PairLt(DistSq(a, b), Sq(d))

(* checkCollision, src lines 1086-1088: sizes in px *)
checkCollision(obj1, obj2, size1, size2) ==
    DistLt(obj1, obj2, (Px(size1) + Px(size2)) \div 2)

-----------------------------------------------------------------------------
(* Math.cos and Math.sin on angles in 1/1000 rad, results in 1/1000.       *)
(* Exact on the multiples of pi/2; a Taylor polynomial elsewhere.          *)
HalfPi == 1571
Pi == 2 * HalfPi
TwoPi == 4 * HalfPi

CosPoly(x) ==
    LET x2 == (x * x) \div Milli
        x4 == (x2 * x2) \div Milli
        x6 == (x4 * x2) \div Milli
        x8 == (x6 * x2) \div Milli
    IN  Milli - (x2 \div 2) + (x4 \div 24) - (x6 \div 720) + (x8 \div 40320)

Cos(angle) ==
    LET r == angle % TwoPi
    IN  CASE angle = NaN -> NaN
          [] r = 0 -> Milli
          [] r = HalfPi -> 0
          [] r = Pi -> 0 - Milli
          [] r = 3 * HalfPi -> 0
          [] r < HalfPi -> CosPoly(r)
          [] r < Pi -> 0 - CosPoly(Pi - r)
          [] r < 3 * HalfPi -> 0 - CosPoly(r - Pi)
          [] OTHER -> CosPoly(TwoPi - r)

Sin(angle) == Cos(Minus(angle, HalfPi))

(* Math.atan2(dy, dx) in 1/1000 rad: exact on the axes, and elsewhere the  *)
(* approximation atan(z) = z*pi/4 + 0.273*z*(1 - z) for 0 <= z <= 1.        *)
AtanUnit(num, den) ==
    LET z == (num * Milli) \div den
    IN  (z * (Pi \div 4)) \div Milli + (273 * ((z * (Milli - z)) \div Milli)) \div Milli

Atan2(dy, dx) ==
    LET ax == Abs(dx)
        ay == Abs(dy)
        \* the angle in the first quadrant, dividing px by px to keep products small
        q == IF ay = 0 THEN 0
             ELSE IF ax = 0 THEN HalfPi
             ELSE IF ay <= ax THEN AtanUnit(ay \div Milli, Max(1, ax \div Milli))
             ELSE HalfPi - AtanUnit(ax \div Milli, Max(1, ay \div Milli))
    IN  CASE dx = NaN \/ dy = NaN -> NaN
          [] dx >= 0 /\ dy >= 0 -> q
          [] dx < 0 /\ dy >= 0 -> Pi - q
          [] dx < 0 /\ dy < 0 -> q - Pi
          [] OTHER -> 0 - q

-----------------------------------------------------------------------------
(* Maps (a JS Map or object): functions on the set of their keys *)
EmptyMap == [k \in {} |-> TRUE]
Put(m, k, v) == [x \in (DOMAIN m) \cup {k} |-> IF x = k THEN v ELSE m[x]]
Del(m, k) == [x \in (DOMAIN m) \ {k} |-> m[x]]

(* The keys of a Map in insertion order.  Ids are handed out in increasing *)
(* order and a deleted id is never set again, so that is increasing order. *)
RECURSIVE SortedSeq(_)
SortedSeq(S) ==
    IF S = {} THEN <<>>
    ELSE LET m == CHOOSE x \in S : \A y \in S : x <= y
         IN  <<m>> \o SortedSeq(S \ {m})

TankIds(gs) == SortedSeq(DOMAIN gs.tanks)

(* Array.prototype.filter and splice on sequences *)
RemoveAt(seq, i) == SubSeq(seq, 1, i - 1) \o SubSeq(seq, i + 1, Len(seq))

-----------------------------------------------------------------------------
(* Strings are sequences of characters; <<>> is also the missing string     *)
(* (undefined and "" are both falsy, and the source only tests for that)    *)
Unknown == <<"U", "n", "k", "n", "o", "w", "n">>

RECURSIVE TrimLeft(_)
TrimLeft(s) == IF s # <<>> /\ Head(s) = " " THEN TrimLeft(Tail(s)) ELSE s

RECURSIVE TrimRight(_)
TrimRight(s) ==
    IF s # <<>> /\ s[Len(s)] = " " THEN TrimRight(SubSeq(s, 1, Len(s) - 1)) ELSE s

(* sanitizeTankName, src lines 1077-1080 *)
sanitizeTankName(name) ==
    IF name = <<>> THEN Unknown
    ELSE LET t == TrimRight(TrimLeft(name))
             c == SubSeq(t, 1, Min(Len(t), NAME_CAP))
         IN  IF c = <<>> THEN Unknown ELSE c

-----------------------------------------------------------------------------
(* Math.random(): the values the model draws *)
(* rng holds them: the x and y of randomPosition() in px, the angles of   *)
(* Math.random() * Math.PI * 2, the types spawnObstacle and spawnPowerup   *)
(* pick, what a mystery pickup turns out to be (an explosion or one of the *)
(* real powerups), and the turns (Math.random() - 0.5) * 0.5 of a roaming  *)
(* bot, whether it drives on (Math.random() > 0.3) and whether it fires    *)
(* (Math.random() < 0.05)                                                  *)
MysteryOutcomes == {"EXPLOSION", "SPEED", "POWER", "HEALTH", "RANGE", "INVINCIBILITY"}

AllDraws ==
    [xs |-> {100, 160}, ys |-> {100}, angles |-> {0, Pi},
     obstacleTypes |-> ObstacleTypeNames, powerupTypes |-> PowerupTypeNames,
     mystery |-> MysteryOutcomes, roamTurns |-> {0, 200},
     roamUps |-> BOOLEAN, roamFires |-> BOOLEAN]

RandomXs == rng.xs
RandomYs == rng.ys
RandomAngles == rng.angles

(* randomPosition, src lines 1028-1033 *)
randomPosition == { [x |-> Px(x), y |-> Px(y)] : x \in RandomXs, y \in RandomYs }

(* findSafeSpawnPosition, src lines 1090-1104: the positions it can return. *)
(* A safe sample is returned at once; after 50 unsafe samples the last one  *)
(* is returned, unsafe as it is.                                            *)
IsSafe(gs, pos) ==
    /\ ~\E id \in DOMAIN gs.tanks : DistLt(pos, gs.tanks[id], Px(TANK_SIZE * 3))
    /\ ~\E i \in 1..Len(gs.obstacles) : DistLt(pos, gs.obstacles[i], Px(TANK_SIZE * 2))

findSafeSpawnPosition(gs) ==
    { pos \in randomPosition : IsSafe(gs, pos) }
        \cup { pos \in randomPosition : ~IsSafe(gs, pos) }

-----------------------------------------------------------------------------
(* class Tank, src lines 1107-1287 *)
NoMove == [up |-> FALSE, down |-> FALSE, left |-> FALSE, right |-> FALSE]

(* the constructor, src lines 1108-1137, without its setTimeout *)
NewTank(id, name, isBot, pos, angle) ==
    [ id |-> id, deviceId |-> <<>>, name |-> sanitizeTankName(name),
      x |-> pos.x, y |-> pos.y, angle |-> angle,
      hp |-> Hp(BASE_HEALTH), maxHp |-> Hp(BASE_HEALTH),
      fireRange |-> Px(BASE_FIRE_RANGE), fireRate |-> BASE_FIRE_RATE, lastFire |-> LongAgo,
      score |-> 0, kills |-> 0, deaths |-> 0, isBot |-> isBot,
      spawnProtection |-> TRUE, invincible |-> FALSE, invincibilityEnd |-> NoEnd,
      powerups |-> EmptyMap, moving |-> NoMove, ws |-> NoConn ]

(* the callback of the setTimeout of the constructor and of respawn *)
SpawnTimer(id, t) == [kind |-> "spawnProtection", tank |-> id, due |-> t + SPAWN_PROTECTION_TIME,
                      expiresAt |-> 0]
(* the callback of the setTimeout of applyPowerup, with the expiresAt it captured *)
InvTimer(id, t, expiresAt, durationMs) ==
    [kind |-> "invincibility", tank |-> id, due |-> t + durationMs, expiresAt |-> expiresAt]

(* this.powerups[type] is set and not expired, src line 1154 *)
EntryLive(tank, type, t) ==
    /\ type \in DOMAIN tank.powerups
    /\ ~(tank.powerups[type].expiresAt > 0 /\ t >= tank.powerups[type].expiresAt)

(* the stack entry after applyPowerup, src lines 1149-1169 *)
StackAfterMax2(tank, type, t, expiresAt, durationMs) ==
    IF ~EntryLive(tank, type, t)
    THEN [stacks |-> 1, expiresAt |-> expiresAt]
    ELSE [stacks |-> tank.powerups[type].stacks + 1,
          expiresAt |-> IF durationMs > 0 THEN expiresAt ELSE tank.powerups[type].expiresAt]

StackAfterNoRefresh(tank, type, t, expiresAt, durationMs) ==
    IF ~EntryLive(tank, type, t)
    THEN [stacks |-> 1, expiresAt |-> expiresAt]
    ELSE IF tank.powerups[type].stacks < POWERUP_TYPES[type].maxStacks
    THEN [stacks |-> tank.powerups[type].stacks + 1,
          expiresAt |-> IF durationMs > 0 THEN expiresAt ELSE tank.powerups[type].expiresAt]
    ELSE tank.powerups[type]

StackAfter(tank, type, t, expiresAt, durationMs) ==
    IF ~EntryLive(tank, type, t)
    THEN [stacks |-> 1, expiresAt |-> expiresAt]
    ELSE IF tank.powerups[type].stacks < POWERUP_TYPES[type].maxStacks
    THEN [stacks |-> tank.powerups[type].stacks + 1,
          expiresAt |-> IF durationMs > 0 THEN expiresAt ELSE tank.powerups[type].expiresAt]
    ELSE [stacks |-> tank.powerups[type].stacks,
          expiresAt |-> IF durationMs > 0 THEN expiresAt ELSE tank.powerups[type].expiresAt]

(* HEALTH, src lines 1144-1147 *)
HealedNoClamp(tank) == tank.hp + Hp(POWERUP_TYPES["HEALTH"].amount)

Healed(tank) == Min(tank.maxHp, tank.hp + Hp(POWERUP_TYPES["HEALTH"].amount))

(* Tank.applyPowerup, src lines 1139-1186: the tank after it and the timers it arms *)
applyPowerup(tank, type, t) ==
    IF type \notin PowerupTypeNames THEN [tank |-> tank, timers |-> {}]
    ELSE IF type = "HEALTH" THEN [tank |-> [tank EXCEPT !.hp = Healed(tank)], timers |-> {}]
    ELSE
      LET durationMs == POWERUP_TYPES[type].duration * 1000
          expiresAt == IF durationMs > 0 THEN t + durationMs ELSE 0
          stacked == [tank EXCEPT !.powerups =
                         Put(tank.powerups, type, StackAfter(tank, type, t, expiresAt, durationMs))]
      IN  IF type = "INVINCIBILITY"
          THEN [tank |-> [stacked EXCEPT !.invincible = TRUE, !.invincibilityEnd = expiresAt],
                timers |-> IF durationMs > 0
                           THEN {InvTimer(tank.id, t, expiresAt, durationMs)} ELSE {}]
          ELSE [tank |-> stacked, timers |-> {}]

StackedOnce(base, type, stacks) ==
    IF stacks <= 0 THEN base
    ELSE (base * POWERUP_TYPES[type].num) \div POWERUP_TYPES[type].den

(* base * multiplier^stacks, one multiplication per stack, src lines 1199-1201 *)
RECURSIVE Stacked(_, _, _)
Stacked(base, type, stacks) ==
    IF stacks <= 0 THEN base
    ELSE Stacked((base * POWERUP_TYPES[type].num) \div POWERUP_TYPES[type].den, type, stacks - 1)

(* an entry that still counts, src lines 1197, 1208, 1218 *)
Counts(tank, type, t) ==
    /\ type \in DOMAIN tank.powerups
    /\ (tank.powerups[type].expiresAt = 0 \/ t < tank.powerups[type].expiresAt)

StatOf(tank, type, base, t) ==
    IF Counts(tank, type, t) THEN Stacked(base, type, tank.powerups[type].stacks) ELSE base

(* Tank.getEffectiveStats, src lines 1188-1227: the stats, and the tank with *)
(* the expired SPEED, POWER and RANGE entries deleted                        *)
getEffectiveStats(tank, t) ==
    LET expired == { type \in {"SPEED", "POWER", "RANGE"} :
                        type \in DOMAIN tank.powerups /\ ~Counts(tank, type, t) }
    IN  [ speed  |-> StatOf(tank, "SPEED", Px(BASE_TANK_SPEED), t),
          damage |-> StatOf(tank, "POWER", Hp(BASE_DAMAGE), t),
          range  |-> StatOf(tank, "RANGE", Px(BASE_FIRE_RANGE), t),
          tank   |-> [tank EXCEPT !.powerups =
                         [type \in (DOMAIN tank.powerups) \ expired |-> tank.powerups[type]]] ]

KeepPowerups(tank) == tank

(* Tank.resetPowerups, src lines 1229-1235 *)
resetPowerups(tank) == [tank EXCEPT !.powerups = EmptyMap, !.invincible = FALSE]

(* Tank.respawn, src lines 1237-1250, at a drawn position and angle *)
RespawnedAt(tank, pos, angle) ==
    [resetPowerups(tank) EXCEPT !.x = pos.x, !.y = pos.y, !.hp = Hp(BASE_HEALTH),
                                !.angle = angle, !.spawnProtection = TRUE,
                                !.deaths = tank.deaths + 1]

-----------------------------------------------------------------------------
(* A callback runs on a value s = [gs, clients, timers, nextId, out]: the   *)
(* state it has built so far.  An operator that draws from Math.random()    *)
(* returns the set of the states it can end in.                             *)
Begin == [gs |-> gameState, clients |-> clients, timers |-> timers, nextId |-> nextId,
          out |-> <<>>]

SetTank(s, tank) == [s EXCEPT !.gs.tanks = Put(s.gs.tanks, tank.id, tank)]

IsOpen(s, c) == c \in DOMAIN s.clients /\ s.clients[c].readyState = "OPEN"

broadcastToAll(s, msg) ==
    [s EXCEPT !.out = Append(@, [to |-> { c \in DOMAIN s.clients : IsOpen(s, c) },
                                 msg |-> msg])]

(* broadcast, src lines 1683-1690: to every open client that is no ESP32 *)
broadcast(s, msg) ==
    [s EXCEPT !.out = Append(@, [to |-> { c \in DOMAIN s.clients :
                                            IsOpen(s, c) /\ ~s.clients[c].isESP32 },
                                 msg |-> msg])]

(* sendTo, src lines 1693-1697 *)
sendTo(s, c, msg) ==
    IF IsOpen(s, c) THEN [s EXCEPT !.out = Append(@, [to |-> {c}, msg |-> msg])] ELSE s

(* updateScoreboard, src lines 1667-1680: a stable sort by descending score *)
Row(tank) == [id |-> tank.id, name |-> tank.name, score |-> tank.score, kills |-> tank.kills,
              deaths |-> tank.deaths, isBot |-> tank.isBot]

RECURSIVE InsertRow(_, _)
InsertRow(rows, row) ==
    IF rows = <<>> THEN <<row>>
    ELSE IF Head(rows).score >= row.score THEN <<Head(rows)>> \o InsertRow(Tail(rows), row)
    ELSE <<row>> \o rows

RECURSIVE SortRows(_, _)
SortRows(rows, sorted) ==
    IF rows = <<>> THEN sorted ELSE SortRows(Tail(rows), InsertRow(sorted, Head(rows)))

ScoreRows(gs) ==
    LET ids == TankIds(gs)
    IN  SortRows([i \in 1..Len(ids) |-> Row(gs.tanks[ids[i]])], <<>>)

updateScoreboard(s) ==
    broadcast([s EXCEPT !.gs.scoreboard = ScoreRows(s.gs)], [type |-> "scoreboardUpdate"])

(* tank.respawn(), src lines 1237-1250: every state it can leave *)
Respawn(s, id) ==
    { [SetTank(s, RespawnedAt(s.gs.tanks[id], pos, angle))
          EXCEPT !.timers = @ \cup {SpawnTimer(id, now)}] :
        pos \in findSafeSpawnPosition(s.gs), angle \in RandomAngles }

(* the exemption of createExplosion and of the bullet test, src lines 1482, 1597 *)
NeverExempt(tank) == FALSE

Exempt(tank) == tank.spawnProtection \/ tank.invincible

(* damage * (1 - dist / radius), src line 1486, in hit-point units: HpUnit  *)
(* makes the damage per length unit a whole number for every explosion of   *)
(* the source.                                                              *)
ExplosionDamageFlat(radius, damage, dist) == Hp(damage)

ExplosionDamage(radius, damage, dist) == (Hp(damage) \div Px(radius)) * (Px(radius) - dist)

(* createExplosion, src lines 1480-1497: the forEach over the tanks *)
RECURSIVE ExplodeTanks(_, _, _, _, _)
ExplodeTanks(s, ids, at, radius, damage) ==
    IF ids = <<>> THEN {s}
    ELSE
      LET tank == s.gs.tanks[Head(ids)]
          dist == distance(at, tank)
          hurt == [tank EXCEPT !.hp = @ - ExplosionDamage(radius, damage, dist)]
      IN  IF Exempt(tank) THEN ExplodeTanks(s, Tail(ids), at, radius, damage)
          ELSE IF ~Lt(dist, Px(radius)) THEN ExplodeTanks(s, Tail(ids), at, radius, damage)
          ELSE IF hurt.hp <= 0
          THEN UNION { ExplodeTanks(
                           broadcast(r, [type |-> "tankDeath", tankId |-> tank.id,
                                         killer |-> "null"]),
                           Tail(ids), at, radius, damage) :
                       r \in Respawn(SetTank(s, hurt), tank.id) }
          ELSE ExplodeTanks(SetTank(s, hurt), Tail(ids), at, radius, damage)

createExplosion(s, x, y, radius, damage) ==
    { broadcast(r, [type |-> "explosion", x |-> x, y |-> y, radius |-> radius]) :
        r \in ExplodeTanks(s, TankIds(s.gs), [x |-> x, y |-> y], radius, damage) }

(* class Bullet, src lines 1290-1317 *)
NewBullet(ownerId, x, y, angle, damage, range) ==
    [ownerId |-> ownerId, x |-> x, y |-> y, startX |-> x, startY |-> y, angle |-> angle,
     damage |-> damage, range |-> range, speed |-> Px(BULLET_SPEED)]

BulletUpdate(b) ==
    [b EXCEPT !.x = Plus(@, MulDiv(Cos(b.angle), b.speed, Milli)),
              !.y = Plus(@, MulDiv(Sin(b.angle), b.speed, Milli))]

NeverOutOfRange(b) == FALSE

isOutOfRange(b) == PairLt(Sq(b.range), DistSq(b, [x |-> b.startX, y |-> b.startY]))

isOutOfBounds(b) ==
    Lt(b.x, 0) \/ Lt(Px(MAP_WIDTH), b.x) \/ Lt(b.y, 0) \/ Lt(Px(MAP_HEIGHT), b.y)

(* fireBullet, src lines 1428-1446: the state after it and whether it fired *)
CanFireAlways(tank) == TRUE

CanFire(tank) == ~(now - tank.lastFire < tank.fireRate)

fireBullet(s, id) ==
    LET tank == s.gs.tanks[id]
        stats == getEffectiveStats([tank EXCEPT !.lastFire = now], now)
        muzzle == Px(TANK_SIZE) \div 2 + Px(5)
        bullet == NewBullet(id, Plus(tank.x, MulDiv(Cos(tank.angle), muzzle, Milli)),
                            Plus(tank.y, MulDiv(Sin(tank.angle), muzzle, Milli)),
                            tank.angle, stats.damage, stats.range)
    IN  IF ~CanFire(tank) THEN [s |-> s, fired |-> FALSE]
        ELSE [s |-> [SetTank(s, stats.tank) EXCEPT !.gs.bullets = Append(@, bullet)],
              fired |-> TRUE]

(* class Obstacle, src lines 1320-1337, and class Powerup, src lines 1340-1349 *)
NewObstacle(type, pos) ==
    [type |-> type, x |-> pos.x, y |-> pos.y, hp |-> Hp(OBSTACLE_TYPES[type].hp),
     size |-> IF type = "WALL" THEN WALL_SIZE ELSE OBSTACLE_SIZE]

NewPowerup(type, x, y) == [type |-> type, x |-> x, y |-> y, size |-> POWERUP_SIZE]

(* spawnObstacle, src lines 1449-1465 *)
ObstacleTypesDrawn == rng.obstacleTypes

spawnObstacle(s) ==
    IF Len(s.gs.obstacles) >= MAX_OBSTACLES THEN {s}
    ELSE { LET obstacle == NewObstacle(type, pos)
               collides == \E id \in DOMAIN s.gs.tanks :
                              DistLt(obstacle, s.gs.tanks[id], Px(TANK_SIZE * 2))
           IN  IF collides THEN s
               ELSE broadcast([s EXCEPT !.gs.obstacles = Append(@, obstacle)],
                              [type |-> "obstacleSpawn", obstacle |-> obstacle]) :
           type \in ObstacleTypesDrawn, pos \in randomPosition }

(* spawnPowerup, src lines 1468-1477.  xs and ys are the values that        *)
(* x || randomPosition().x and y || randomPosition().y can take.            *)
PowerupTypesDrawn == rng.powerupTypes
RandomPxXs == { Px(rx) : rx \in RandomXs }
RandomPxYs == { Px(ry) : ry \in RandomYs }

(* a spawner that does not look at the number of pickups in the world *)
SpawnUncapped(s, xs, ys) ==
    { LET powerup == NewPowerup(type, px, py)
      IN  broadcast([s EXCEPT !.gs.powerups = Append(@, powerup)],
                    [type |-> "powerupSpawn", powerup |-> powerup]) :
      type \in PowerupTypesDrawn, px \in xs, py \in ys }

spawnPowerup(s, xs, ys) ==
    IF Len(s.gs.powerups) >= MAX_POWERUPS THEN {s}
    ELSE { LET powerup == NewPowerup(type, px, py)
           IN  broadcast([s EXCEPT !.gs.powerups = Append(@, powerup)],
                         [type |-> "powerupSpawn", powerup |-> powerup]) :
           type \in PowerupTypesDrawn, px \in xs, py \in ys }

-----------------------------------------------------------------------------
(* updateGame, src lines 1500-1664 *)
ROTATE_STEP == 50                       \* tank.angle -= 0.05, src line 1515

Clamp(lo, hi, v) == IF v = NaN THEN NaN ELSE Max(lo, Min(hi, v))

(* dx, dy and the clamped candidate position, src lines 1505-1523 *)
Candidate(tank, speed) ==
    LET fx == MulDiv(Cos(tank.angle), speed, Milli)
        fy == MulDiv(Sin(tank.angle), speed, Milli)
        dx == Minus(IF tank.moving.up THEN fx ELSE 0, IF tank.moving.down THEN fx ELSE 0)
        dy == Minus(IF tank.moving.up THEN fy ELSE 0, IF tank.moving.down THEN fy ELSE 0)
        half == Px(TANK_SIZE) \div 2
    IN  [x |-> Clamp(half, Px(MAP_WIDTH) - half, Plus(tank.x, dx)),
         y |-> Clamp(half, Px(MAP_HEIGHT) - half, Plus(tank.y, dy))]

Turned(tank) ==
    [tank EXCEPT !.angle = Plus(Minus(@, IF tank.moving.left THEN ROTATE_STEP ELSE 0),
                                IF tank.moving.right THEN ROTATE_STEP ELSE 0)]

(* tank.applyPowerup(type) on the tank in the Map, and the broadcast of it *)
Collect(s, id, type, powerup, wasMystery) ==
    LET r == applyPowerup(s.gs.tanks[id], type, now)
    IN  broadcast([SetTank(s, r.tank) EXCEPT !.timers = @ \cup r.timers],
                  [type |-> "powerupCollect", tankId |-> id, powerupType |-> type,
                   x |-> powerup.x, y |-> powerup.y, wasMystery |-> wasMystery])

(* the MYSTERY branch, src lines 1562-1574 *)
RealPowerups == {"SPEED", "POWER", "HEALTH", "RANGE", "INVINCIBILITY"}

MysteryDrawn == rng.mystery

(* a pickup handed to the tank as it is, the mystery one included *)
MysteryKept(s, id, powerup) == { Collect(s, id, powerup.type, powerup, FALSE) }

Mystery(s, id, powerup) ==
    (IF "EXPLOSION" \in MysteryDrawn
     THEN createExplosion(broadcast(s, [type |-> "mysteryExplode", tankId |-> id,
                                        x |-> powerup.x, y |-> powerup.y,
                                        radius |-> MYSTERY_EXPLOSION_RADIUS]),
                          powerup.x, powerup.y,
                          MYSTERY_EXPLOSION_RADIUS, MYSTERY_EXPLOSION_DAMAGE)
     ELSE {})
        \cup { Collect(s, id, type, powerup, TRUE) : type \in RealPowerups \cap MysteryDrawn }

(* the filter over gameState.powerups, src lines 1559-1582 *)
RECURSIVE CollectPowerups(_, _, _, _)
CollectPowerups(s, id, rest, kept) ==
    IF rest = <<>> THEN { [s EXCEPT !.gs.powerups = kept] }
    ELSE
      LET powerup == Head(rest)
      IN  IF ~DistLt(s.gs.tanks[id], powerup, (Px(TANK_SIZE) + Px(powerup.size)) \div 2)
          THEN CollectPowerups(s, id, Tail(rest), Append(kept, powerup))
          ELSE IF powerup.type = "MYSTERY"
          THEN UNION { CollectPowerups(r, id, Tail(rest), kept) : r \in Mystery(s, id, powerup) }
          ELSE CollectPowerups(Collect(s, id, powerup.type, powerup, FALSE), id, Tail(rest), kept)

(* the test by which the loop tells that the explosion of the barrel has    *)
(* respawned the tank: it is no longer where it was, src line 1547          *)
NeverRespawned(before, after) == FALSE

Respawned(before, after) == Differ(after.x, before.x) \/ Differ(after.y, before.y)

(* one tank of the forEach over the tanks, src lines 1502-1583 *)
TankStep(s, id) ==
    LET stats == getEffectiveStats(s.gs.tanks[id], now)
        cand == Candidate(stats.tank, stats.speed)
        tank == Turned(stats.tank)
        obs == s.gs.obstacles
        touching == { i \in 1..Len(obs) :
                        DistLt(cand, obs[i], (Px(TANK_SIZE) + Px(obs[i].size)) \div 2) }
        barrels == { i \in touching : obs[i].type = "BARREL" }
        canMove == touching \ barrels = {}
        \* the last barrel of the forEach is the one that explodes
        b == CHOOSE i \in barrels : \A j \in barrels : j <= i
        s1 == SetTank(s, tank)
        Finish(r) ==
            LET t == r.gs.tanks[id]
                moved == IF canMove THEN [t EXCEPT !.x = cand.x, !.y = cand.y] ELSE t
            IN  CollectPowerups(SetTank(r, moved), id, r.gs.powerups, <<>>)
    IN  IF barrels = {} THEN Finish(s1)
        ELSE UNION {
               LET r == broadcast(e, [type |-> "obstacleDestroyed", obstacle |-> obs[b]])
               IN  IF Respawned(tank, r.gs.tanks[id])
                   THEN {r}
                   ELSE Finish(r) :
               e \in createExplosion([s1 EXCEPT !.gs.obstacles = RemoveAt(obs, b)],
                                     obs[b].x, obs[b].y,
                                     OBSTACLE_TYPES["BARREL"].explosionRadius,
                                     OBSTACLE_TYPES["BARREL"].explosionDamage) }

RECURSIVE UpdateTanks(_, _)
UpdateTanks(s, ids) ==
    IF ids = <<>> THEN {s}
    ELSE UNION { UpdateTanks(r, Tail(ids)) : r \in TankStep(s, Head(ids)) }

(* the forEach over the tanks of one bullet, src lines 1594-1620: the state *)
(* after it and hitTank                                                     *)
NoKillPoints(victim) == 0

KillPoints(victim) == IF victim.isBot THEN BOT_KILL_POINTS ELSE HUMAN_KILL_POINTS

RewardedSilently(s, ownerId, points, kills) ==
    IF ownerId \in DOMAIN s.gs.tanks
    THEN SetTank(s, [s.gs.tanks[ownerId] EXCEPT !.score = @ + points, !.kills = @ + kills])
    ELSE s

Rewarded(s, ownerId, points, kills) ==
    IF ownerId \in DOMAIN s.gs.tanks
    THEN updateScoreboard(SetTank(s, [s.gs.tanks[ownerId] EXCEPT !.score = @ + points,
                                                                 !.kills = @ + kills]))
    ELSE s

RECURSIVE HitTanks(_, _, _, _)
HitTanks(s, bullet, ids, hitTank) ==
    IF ids = <<>> THEN { [s |-> s, hit |-> hitTank] }
    ELSE
      LET tank == s.gs.tanks[Head(ids)]
          hurt == [tank EXCEPT !.hp = @ - bullet.damage]
      IN  IF tank.id = bullet.ownerId \/ Exempt(tank)
             \/ ~checkCollision(bullet, tank, BULLET_SIZE, TANK_SIZE)
          THEN HitTanks(s, bullet, Tail(ids), hitTank)
          ELSE IF hurt.hp <= 0
          THEN UNION { HitTanks(broadcast(r, [type |-> "tankDeath", tankId |-> tank.id,
                                              killerId |-> bullet.ownerId,
                                              wasBot |-> tank.isBot]),
                                bullet, Tail(ids), TRUE) :
                       r \in Respawn(Rewarded(SetTank(s, hurt), bullet.ownerId,
                                              KillPoints(tank), 1), tank.id) }
          ELSE HitTanks(SetTank(s, hurt), bullet, Tail(ids), TRUE)

(* the loop over the obstacles of one bullet, src lines 1625-1657 *)
HitObstacle(s, bullet) ==
    LET obs == s.gs.obstacles
        touching == { i \in 1..Len(obs) :
                        checkCollision(bullet, obs[i], BULLET_SIZE, obs[i].size) }
        i == CHOOSE k \in touching : \A j \in touching : j <= k
        config == OBSTACLE_TYPES[obs[i].type]
        damaged == [obs[i] EXCEPT !.hp = @ - bullet.damage]
        s1 == [s EXCEPT !.gs.obstacles[i] = damaged]
        s2 == Rewarded(s1, bullet.ownerId, config.points, 0)
        blown == IF config.explosive
                 THEN createExplosion(s2, damaged.x, damaged.y, config.explosionRadius,
                                      config.explosionDamage)
                 ELSE {s2}
        opened == IF config.containsPowerup
                  THEN UNION { spawnPowerup(r, {damaged.x}, {damaged.y})
                                  \cup createExplosion(r, damaged.x, damaged.y,
                                                       CRATE_BOMB_RADIUS, CRATE_BOMB_DAMAGE) :
                               r \in blown }
                  ELSE blown
    IN  IF touching = {} THEN { [s |-> s, hit |-> FALSE] }
        ELSE IF damaged.hp > 0 THEN { [s |-> s1, hit |-> TRUE] }
        ELSE { [s |-> broadcast([r EXCEPT !.gs.obstacles = RemoveAt(r.gs.obstacles, i)],
                                [type |-> "obstacleDestroyed", obstacle |-> damaged]),
                hit |-> TRUE] : r \in opened }

(* the filter over gameState.bullets, src lines 1586-1660 *)
RECURSIVE UpdateBullets(_, _, _)
UpdateBullets(s, rest, kept) ==
    IF rest = <<>> THEN { [s EXCEPT !.gs.bullets = kept] }
    ELSE
      LET bullet == BulletUpdate(Head(rest))
      IN  IF isOutOfBounds(bullet) \/ isOutOfRange(bullet)
          THEN UpdateBullets(s, Tail(rest), kept)
          ELSE UNION {
                 IF h.hit THEN UpdateBullets(h.s, Tail(rest), kept)
                 ELSE UNION { UpdateBullets(o.s, Tail(rest),
                                            IF o.hit THEN kept ELSE Append(kept, bullet)) :
                              o \in HitObstacle(h.s, bullet) } :
                 h \in HitTanks(s, bullet, TankIds(s.gs), FALSE) }

(* BotAI.update, src lines 1360-1424 *)
BOT_AGGRO == 400                        \* src line 1378
BOT_HOLD == 150                         \* src line 1387
BOT_AVOID == 80                         \* src line 1414
BOT_EDGE == 100                         \* src line 1420
RoamTurnsDrawn == rng.roamTurns           \* (Math.random() - 0.5) * 0.5, or no turn

(* the forEach over the obstacles, src lines 1413-1417 *)
RECURSIVE AvoidObstacles(_, _, _)
AvoidObstacles(tank, obs, i) ==
    IF i > Len(obs) THEN tank
    ELSE AvoidObstacles(IF DistLt(tank, obs[i], Px(BOT_AVOID))
                        THEN [tank EXCEPT !.angle = Plus(@, Pi \div 4)] ELSE tank,
                        obs, i + 1)

(* src lines 1420-1423 *)
AvoidEdges(tank) ==
    LET a1 == IF Lt(tank.x, Px(BOT_EDGE)) THEN 0 ELSE tank.angle
        a2 == IF Lt(Px(MAP_WIDTH) - Px(BOT_EDGE), tank.x) THEN Pi ELSE a1
        a3 == IF Lt(tank.y, Px(BOT_EDGE)) THEN HalfPi ELSE a2
        a4 == IF Lt(Px(MAP_HEIGHT) - Px(BOT_EDGE), tank.y) THEN 0 - HalfPi ELSE a3
    IN  [tank EXCEPT !.angle = a4]

Avoid(s, id) == SetTank(s, AvoidEdges(AvoidObstacles(s.gs.tanks[id], s.gs.obstacles, 1)))

BotUpdate(s, id) ==
    LET bot == s.gs.bots[id]
        me == s.gs.tanks[id]
        D(p) == DistSq(me, s.gs.tanks[p])
        \* dist < nearestDist is false of a distance that is NaN
        players == { p \in DOMAIN s.gs.tanks :
                       ~s.gs.tanks[p].isBot /\ p # id /\ D(p) # NaNPair }
        \* the first of the nearest, in the order of the Map
        nearest == CHOOSE p \in players :
                      \A q \in players : PairLt(D(p), D(q)) \/ (D(p) = D(q) /\ p <= q)
        target == s.gs.tanks[nearest]
        decided(state) == [s EXCEPT !.gs.bots[id] = [@ EXCEPT !.lastDecision = now,
                                                              !.state = state]]
        attack ==
            LET aimed == [me EXCEPT !.angle = Atan2(Minus(target.y, me.y),
                                                    Minus(target.x, me.x)),
                                    !.moving = [NoMove EXCEPT !.up =
                                                   PairLt(Sq(Px(BOT_HOLD)), D(nearest))]]
                s1 == SetTank(decided("attacking"), aimed)
            IN  IF DistLt(me, target, me.fireRange) THEN fireBullet(s1, id).s ELSE s1
        roam ==
            { LET s1 == SetTank(decided("roaming"),
                                [me EXCEPT !.angle = Plus(@, turn),
                                           !.moving = [NoMove EXCEPT !.up = up]])
              IN  IF fire THEN fireBullet(s1, id).s ELSE s1 :
              turn \in RoamTurnsDrawn, up \in rng.roamUps, fire \in rng.roamFires }
    IN  IF now - bot.lastDecision < BOT_REACTION_TIME THEN {s}
        ELSE IF players # {} /\ DistLt(me, target, Px(BOT_AGGRO))
        THEN { Avoid(attack, id) }
        ELSE { Avoid(r, id) : r \in roam }

RECURSIVE UpdateBots(_, _)
UpdateBots(s, ids) ==
    IF ids = <<>> THEN {s}
    ELSE UNION { UpdateBots(r, Tail(ids)) : r \in BotUpdate(s, Head(ids)) }

updateGame(s) ==
    UNION { UNION { UpdateBots(b, SortedSeq(DOMAIN b.gs.bots)) :
                    b \in UpdateBullets(t, t.gs.bullets, <<>>) } :
            t \in UpdateTanks(s, TankIds(s.gs)) }

(* the callback that broadcasts the world 30 times a second, src lines     *)
(* 2036-2045; the tanks go out in the order of the Map                     *)
OnSnapshot(s) ==
    broadcast(s, [type |-> "gameState", tanks |-> TankIds(s.gs), bullets |-> s.gs.bullets,
                  obstacles |-> s.gs.obstacles, powerups |-> s.gs.powerups])

(* tank.moving.up throws when the moving of a tank is undefined or null,    *)
(* src line 1506: nothing catches it in the callback of setInterval, and   *)
(* the exception ends the process                                          *)
Unreadable(tank) == tank.moving = NoRecord

Throwing(gs) == { id \in DOMAIN gs.tanks : Unreadable(gs.tanks[id]) }

(* the states updateGame is in when it throws: the tanks before the first  *)
(* unreadable one of the forEach have been updated, src lines 1502-1506    *)
updateGameThrown(s) ==
    LET ids == TankIds(s.gs)
        k == CHOOSE i \in 1..Len(ids) :
                /\ Unreadable(s.gs.tanks[ids[i]])
                /\ \A j \in 1..(i - 1) : ~Unreadable(s.gs.tanks[ids[j]])
    IN  { SetTank(r, getEffectiveStats(r.gs.tanks[ids[k]], now).tank) :
          r \in UpdateTanks(s, SubSeq(ids, 1, k - 1)) }

-----------------------------------------------------------------------------
(* wss.on('connection'), src lines 1700-2031.  A client is the ws object    *)
(* (readyState, lastPong, playerId, clientIP, isESP32, isSpectator) with    *)
(* the variables of its closure (closurePlayerId, isAdmin).  `handlers`     *)
(* tells that the connection got past the ban check, `ended` how the server *)
(* ended it.                                                                *)
NoPong == 0 - 1

NewClient(ip) ==
    [readyState |-> "OPEN", ip |-> ip, handlers |-> TRUE, lastPong |-> now,
     closurePlayerId |-> NoTank, isAdmin |-> FALSE, playerId |-> NoTank,
     clientIP |-> Undefined, isESP32 |-> FALSE, isSpectator |-> FALSE, ended |-> "no"]

(* ws.close() and ws.terminate(): the close event comes later *)
Ended(s, c, how) ==
    [s EXCEPT !.clients[c] = [@ EXCEPT !.readyState = "CLOSING",
                                       !.ended = IF @ = "no" THEN how ELSE @]]

(* the ban check, src lines 1703-1708 *)
IsBannedNever(gs, ip) == FALSE

IsBanned(gs, ip) == ip \in gs.bannedIPs

OnConnection(s, c, ip) ==
    LET s1 == [s EXCEPT !.clients = Put(s.clients, c, NewClient(ip)),
                        !.nextId.conn = c + 1]
    IN  IF IsBanned(s.gs, ip)
        THEN LET s2 == Ended(sendTo(s1, c, [type |-> "banned"]), c, "close")
             IN  [s2 EXCEPT !.clients[c] = [@ EXCEPT !.handlers = FALSE, !.lastPong = NoPong]]
        ELSE s1

(* the tank of the connection: gameState.tanks.get(playerId) *)
HasTank(s, c) == s.clients[c].closurePlayerId \in DOMAIN s.gs.tanks
TankOf(s, c) == s.gs.tanks[s.clients[c].closurePlayerId]

(* case 'spectate', src lines 1727-1742 *)
OnSpectate(s, c) ==
    sendTo([s EXCEPT !.clients[c].isSpectator = TRUE], c, [type |-> "spectateJoined"])

(* case 'join', src lines 1744-1749 *)
OnJoin(s, c) == sendTo(s, c, [type |-> "error", message |-> "Direct join disabled"])

(* case 'move', src lines 1751-1757 *)
OnMove(s, c, moving) ==
    IF HasTank(s, c) THEN SetTank(s, [TankOf(s, c) EXCEPT !.moving = moving]) ELSE s

(* case 'rotate', src lines 1759-1765 *)
OnRotate(s, c, angle) ==
    IF HasTank(s, c) THEN SetTank(s, [TankOf(s, c) EXCEPT !.angle = angle]) ELSE s

(* case 'fire', src lines 1767-1776 *)
OnFire(s, c) ==
    IF ~HasTank(s, c) THEN s
    ELSE LET f == fireBullet(s, s.clients[c].closurePlayerId)
         IN  IF f.fired
             THEN broadcast(f.s, [type |-> "bulletFired",
                                  ownerId |-> s.clients[c].closurePlayerId])
             ELSE f.s

(* case 'adminLogin', src lines 1778-1786 *)
OnAdminLogin(s, c, password) ==
    IF password = ADMIN_PASSWORD
    THEN sendTo([s EXCEPT !.clients[c].isAdmin = TRUE], c, [type |-> "adminLoginSuccess"])
    ELSE sendTo(s, c, [type |-> "adminLoginFailed"])

(* the forEach over wss.clients of adminKick and adminBan *)
RECURSIVE Expel(_, _, _, _)
Expel(s, cs, targetId, ban) ==
    IF cs = <<>> THEN s
    ELSE
      LET c == Head(cs)
          s1 == IF ban THEN [s EXCEPT !.gs.bannedIPs = @ \cup {s.clients[c].clientIP}] ELSE s
          s2 == Ended(sendTo(s1, c, [type |-> IF ban THEN "banned" ELSE "kicked"]), c, "close")
      IN  Expel(IF s.clients[c].playerId = targetId THEN s2 ELSE s, Tail(cs), targetId, ban)

KickRemoving(s, c, targetId) ==
    IF ~s.clients[c].isAdmin THEN s
    ELSE IF targetId \in DOMAIN s.gs.tanks
    THEN [Expel(s, SortedSeq(DOMAIN s.clients), targetId, FALSE)
             EXCEPT !.gs.tanks = Del(@, targetId)]
    ELSE s

(* case 'adminKick', src lines 1788-1800 *)
OnAdminKick(s, c, targetId) ==
    IF ~s.clients[c].isAdmin THEN s
    ELSE IF targetId \in DOMAIN s.gs.tanks /\ ~s.gs.tanks[targetId].isBot
    THEN Expel(s, SortedSeq(DOMAIN s.clients), targetId, FALSE)
    ELSE s

(* case 'adminBan', src lines 1802-1812 *)
OnAdminBan(s, c, targetId) ==
    IF ~s.clients[c].isAdmin THEN s
    ELSE Expel(s, SortedSeq(DOMAIN s.clients), targetId, TRUE)

(* new Tank(...), src lines 1108-1137, with its setTimeout: every state it  *)
(* can leave once the caller has stored the tank                            *)
BotName == <<"B", "o", "t">>

Created(s, id, name, isBot, deviceId, ws) ==
    { [s EXCEPT !.gs.tanks = Put(@, id, [NewTank(id, name, isBot, pos, angle)
                                            EXCEPT !.deviceId = deviceId, !.ws = ws]),
                !.timers = @ \cup {SpawnTimer(id, now)},
                !.nextId.uuid = id + 1] :
        pos \in findSafeSpawnPosition(s.gs), angle \in RandomAngles }

(* case 'adminSpawnBot', src lines 1814-1830 *)
OnAdminSpawnBot(s, c) ==
    IF ~s.clients[c].isAdmin THEN {s}
    ELSE LET botId == s.nextId.uuid
         IN  { updateScoreboard(broadcast(
                   [r EXCEPT !.gs.bots = Put(@, botId, [lastDecision |-> LongAgo, state |-> "roaming"])],
                   [type |-> "playerJoined", tankId |-> botId])) :
               r \in Created(s, botId, BotName, TRUE, <<>>, NoConn) }

RemoveBotByAnyone(s, c, botId) ==
    IF botId \in DOMAIN s.gs.tanks /\ s.gs.tanks[botId].isBot
    THEN updateScoreboard(broadcast([s EXCEPT !.gs.tanks = Del(@, botId),
                                              !.gs.bots = Del(@, botId)],
                                    [type |-> "playerLeft", playerId |-> botId]))
    ELSE s

(* a removal that takes the tank of the bot and leaves its controller *)
RemoveBotTank(s, c, botId) ==
    IF ~s.clients[c].isAdmin THEN s
    ELSE IF botId \in DOMAIN s.gs.tanks /\ s.gs.tanks[botId].isBot
    THEN updateScoreboard(broadcast([s EXCEPT !.gs.tanks = Del(@, botId)],
                                    [type |-> "playerLeft", playerId |-> botId]))
    ELSE s

(* case 'adminRemoveBot', src lines 1832-1842 *)
OnAdminRemoveBot(s, c, botId) ==
    IF ~s.clients[c].isAdmin THEN s
    ELSE IF botId \in DOMAIN s.gs.tanks /\ s.gs.tanks[botId].isBot
    THEN updateScoreboard(broadcast([s EXCEPT !.gs.tanks = Del(@, botId),
                                              !.gs.bots = Del(@, botId)],
                                    [type |-> "playerLeft", playerId |-> botId]))
    ELSE s

(* case 'adminResetScoreboard', src lines 1844-1854 *)
OnAdminResetScoreboard(s, c) ==
    IF ~s.clients[c].isAdmin THEN s
    ELSE broadcast(updateScoreboard(
             [s EXCEPT !.gs.tanks = [id \in DOMAIN @ |->
                                        [@[id] EXCEPT !.score = 0, !.kills = 0, !.deaths = 0]]]),
             [type |-> "scoreboardReset"])

(* case 'adminGetPlayers', src lines 1856-1868 *)
OnAdminGetPlayers(s, c) ==
    IF ~s.clients[c].isAdmin THEN s
    ELSE sendTo(s, c, [type |-> "playerList", players |-> DOMAIN s.gs.tanks])

(* data.deviceId || sanitizeTankName(data.name), src lines 1878 and 1955 *)
DeviceIdOfName(deviceId, name) == sanitizeTankName(name)

DeviceIdOf(deviceId, name) == IF deviceId # <<>> THEN deviceId ELSE sanitizeTankName(name)

(* the search for the tank of the device, src lines 1883-1889 and 1960-1966 *)
NoExisting(gs, deviceId) == {}

Existing(gs, deviceId) ==
    { id \in DOMAIN gs.tanks : gs.tanks[id].deviceId = deviceId /\ ~gs.tanks[id].isBot }

FirstOf(ids) == CHOOSE id \in ids : \A other \in ids : id <= other

(* the ws fields both joins set, src lines 1895-1896, 1926-1927, 1972-1974, 1996-1998 *)
Attached(s, c, id, esp32) ==
    [s EXCEPT !.clients[c] = [@ EXCEPT !.closurePlayerId = id, !.playerId = id,
                                       !.clientIP = s.clients[c].ip,
                                       !.isESP32 = IF esp32 THEN TRUE ELSE @]]

(* the reconnect branch, src lines 1891-1912 and 1968-1982 *)
ReattachedUnbound(s, c, id, esp32) ==
    sendTo(Attached(s, c, id, esp32), c, [type |-> "joined", playerId |-> id, full |-> ~esp32])

Reattached(s, c, id, esp32) ==
    sendTo(Attached(SetTank(s, [s.gs.tanks[id] EXCEPT !.ws = c]), c, id, esp32),
           c, [type |-> "joined", playerId |-> id, full |-> ~esp32])

(* the two joins after the password check, src lines 1877-1947 and 1954-2010 *)
Joined(s, c, deviceIdIn, name, esp32) ==
    LET deviceId == DeviceIdOf(deviceIdIn, name)
        existing == Existing(s.gs, deviceId)
        id == s.nextId.uuid
    IN  IF existing # {} THEN { Reattached(s, c, FirstOf(existing), esp32) }
        ELSE { updateScoreboard(broadcast(
                   sendTo(Attached(r, c, id, esp32), c,
                          [type |-> "joined", playerId |-> id, full |-> ~esp32]),
                   [type |-> "playerJoined", tankId |-> id])) :
               r \in Created(s, id, name, FALSE, deviceId, c) }

SimulatorJoinUnchecked(s, c, deviceId, name, adminPassword) ==
    Joined(s, c, deviceId, name, FALSE)

(* case 'simulatorJoin', src lines 1870-1948 *)
OnSimulatorJoin(s, c, deviceId, name, adminPassword) ==
    IF adminPassword # ADMIN_PASSWORD
    THEN { sendTo(s, c, [type |-> "error", message |-> "Invalid admin password"]) }
    ELSE Joined(s, c, deviceId, name, FALSE)

(* case 'esp32Join', src lines 1950-2011 *)
OnEsp32Join(s, c, deviceId, name) == Joined(s, c, deviceId, name, TRUE)

(* ws.on('message'), src lines 1722-2016: JSON.parse, the switch over       *)
(* data.type and the catch.  payload tells what the frame holds: text that *)
(* JSON.parse rejects ("garbage"), the JSON of null, whose data.type       *)
(* throws ("null"), the JSON of a number or a string, whose data.type is   *)
(* undefined ("scalar"), or the JSON of an object ("object").              *)
MessageTypes ==
    {"spectate", "join", "move", "rotate", "fire", "adminLogin", "adminKick", "adminBan",
     "adminSpawnBot", "adminRemoveBot", "adminResetScoreboard", "adminGetPlayers",
     "simulatorJoin", "esp32Join"}

NoData ==
    [payload |-> "object", type |-> Undefined, moving |-> NoMove, angle |-> NaN,
     password |-> Undefined, targetId |-> NoTank, botId |-> NoTank,
     deviceId |-> <<>>, name |-> <<>>, adminPassword |-> Undefined]

OnMessageClosing(s, c, data) == {Ended(s, c, "close")}

OnMessage(s, c, data) ==
    IF data.payload # "object" THEN {s}
    ELSE CASE data.type = "spectate" -> {OnSpectate(s, c)}
           [] data.type = "join" -> {OnJoin(s, c)}
           [] data.type = "move" -> {OnMove(s, c, data.moving)}
           [] data.type = "rotate" -> {OnRotate(s, c, data.angle)}
           [] data.type = "fire" -> {OnFire(s, c)}
           [] data.type = "adminLogin" -> {OnAdminLogin(s, c, data.password)}
           [] data.type = "adminKick" -> {OnAdminKick(s, c, data.targetId)}
           [] data.type = "adminBan" -> {OnAdminBan(s, c, data.targetId)}
           [] data.type = "adminSpawnBot" -> OnAdminSpawnBot(s, c)
           [] data.type = "adminRemoveBot" -> {OnAdminRemoveBot(s, c, data.botId)}
           [] data.type = "adminResetScoreboard" -> {OnAdminResetScoreboard(s, c)}
           [] data.type = "adminGetPlayers" -> {OnAdminGetPlayers(s, c)}
           [] data.type = "simulatorJoin" ->
                 OnSimulatorJoin(s, c, data.deviceId, data.name, data.adminPassword)
           [] data.type = "esp32Join" -> OnEsp32Join(s, c, data.deviceId, data.name)
           [] OTHER -> {s}

(* ws.on('close'), src lines 2018-2030, after wss has dropped the client *)
ActiveAlways(tank, c) == TRUE

Active(tank, c) == tank.ws = c

OnClose(s, c) ==
    LET id == s.clients[c].closurePlayerId
        s1 == [s EXCEPT !.clients = Del(@, c)]
    IN  IF s.clients[c].handlers /\ id # NoTank /\ id \in DOMAIN s.gs.tanks
           /\ ~s.gs.tanks[id].isBot /\ Active(s.gs.tanks[id], c)
        THEN updateScoreboard(broadcast([s1 EXCEPT !.gs.tanks = Del(@, id)],
                                        [type |-> "playerLeft", playerId |-> id]))
        ELSE s1

(* the heartbeat, src lines 2054-2069 *)
TimedOutAtTimeout(client) ==
    client.lastPong # NoPong /\ now - client.lastPong >= HEARTBEAT_TIMEOUT

TimedOut(client) == client.lastPong # NoPong /\ now - client.lastPong > HEARTBEAT_TIMEOUT

RECURSIVE Probe(_, _)
Probe(s, cs) ==
    IF cs = <<>> THEN s
    ELSE Probe(IF TimedOut(s.clients[Head(cs)]) THEN Ended(s, Head(cs), "terminate") ELSE s,
               Tail(cs))

(* the callbacks of setTimeout, src lines 1134-1136, 1177-1183, 1247-1249 *)
StaleNever(tank, tm) == FALSE

Stale(tank, tm) == tank.invincibilityEnd # tm.expiresAt

(* a callback of the invincibility timer that clears the flag of the tank *)
(* and leaves its stack entry                                              *)
OnTimerFlagOnly(s, tm) ==
    LET s1 == [s EXCEPT !.timers = @ \ {tm}]
        tank == s.gs.tanks[tm.tank]
    IN  IF tm.tank \notin DOMAIN s.gs.tanks THEN s1
        ELSE IF tm.kind = "spawnProtection"
        THEN SetTank(s1, [tank EXCEPT !.spawnProtection = FALSE])
        ELSE IF Stale(tank, tm) THEN s1
        ELSE SetTank(s1, [tank EXCEPT !.invincible = FALSE])

OnTimer(s, tm) ==
    LET s1 == [s EXCEPT !.timers = @ \ {tm}]
        tank == s.gs.tanks[tm.tank]
    IN  IF tm.tank \notin DOMAIN s.gs.tanks THEN s1
        ELSE IF tm.kind = "spawnProtection"
        THEN SetTank(s1, [tank EXCEPT !.spawnProtection = FALSE])
        ELSE IF Stale(tank, tm) THEN s1
        ELSE SetTank(s1, [tank EXCEPT !.invincible = FALSE,
                                      !.powerups = Del(@, "INVINCIBILITY")])

-----------------------------------------------------------------------------
(* The controller firmware, src lines 597-957.  Its state is the globals   *)
(* of the sketch; link is the socket of the WebSockets library, sent the   *)
(* frames that the last callback handed to webSocket.sendTXT, event the    *)
(* callback that ran last, and acked whether a joined acknowledgment has   *)
(* arrived on the present connection with no disconnect, kicked or banned  *)
(* after it.                                                               *)
BUTTON_CHECK_INTERVAL == 20             \* src line 653
DEBOUNCE_DELAY == 50                    \* src line 657

Directions == {"up", "down", "left", "right"}
Buttons == Directions \cup {"fire"}
Released == [b \in Buttons |-> FALSE]

(* the globals after setup(), src lines 628-657 *)
Globals ==
    [btn |-> Released, prevBtn |-> Released, isConnected |-> FALSE, playerId |-> NoTank,
     lastButtonCheck |-> 0, lastDebounceTime |-> [b \in Buttons |-> 0], millis |-> 0,
     link |-> FALSE, acked |-> FALSE, event |-> "setup", sent |-> <<>>]

(* sendJoinMessage, sendMovement and sendFire, src lines 782-795, 912-941 *)
sendJoinMessage(e) == [e EXCEPT !.sent = Append(@, [type |-> "esp32Join"])]

sendMovement(e) ==
    [e EXCEPT !.sent = Append(@, [type |-> "move",
                                  moving |-> [b \in Directions |-> e.btn[b]]])]

sendFire(e) == [e EXCEPT !.sent = Append(@, [type |-> "fire"])]

(* a handler that knows no kicked and no banned *)
HandleJoinedOnly(e, type, playerId) ==
    IF type = "joined" THEN [e EXCEPT !.isConnected = TRUE, !.playerId = playerId] ELSE e

(* handleServerMessage, src lines 797-850, on a frame of the given type; a *)
(* frame that is no JSON, "garbage", is dropped.  The game statistics that *)
(* a gameState frame updates are not part of the state.                    *)
handleServerMessage(e, type, playerId) ==
    CASE type = "joined" -> [e EXCEPT !.isConnected = TRUE, !.playerId = playerId]
      [] type \in {"kicked", "banned"} -> [e EXCEPT !.isConnected = FALSE]
      [] OTHER -> e

(* webSocketEvent, src lines 755-780 *)
webSocketEvent(e, type, text, playerId) ==
    CASE type = "WStype_DISCONNECTED" -> [e EXCEPT !.isConnected = FALSE, !.playerId = NoTank]
      [] type = "WStype_CONNECTED" -> sendJoinMessage(e)
      [] type = "WStype_TEXT" -> handleServerMessage(e, text, playerId)
      [] OTHER -> e

(* the debounce of one button, src lines 867-886: whether the reading is   *)
(* taken over                                                              *)
Accepted(e, b, reading, currentTime) ==
    reading # e.btn[b] /\ currentTime - e.lastDebounceTime[b] > DEBOUNCE_DELAY

(* checkButtons, src lines 856-910, with the levels that digitalRead gives *)
(* (TRUE: pressed)                                                         *)
checkButtons(e, pins) ==
    LET currentTime == e.millis
        btn == [b \in Buttons |-> IF Accepted(e, b, pins[b], currentTime)
                                  THEN pins[b] ELSE e.btn[b]]
        e1 == [e EXCEPT !.btn = btn,
                        !.lastDebounceTime =
                            [b \in Buttons |-> IF Accepted(e, b, pins[b], currentTime)
                                               THEN currentTime ELSE e.lastDebounceTime[b]]]
        movementChanged == \E b \in Directions : btn[b] # e.prevBtn[b]
        firePressed == btn["fire"] /\ ~e.prevBtn["fire"]
        e2 == IF movementChanged /\ e1.isConnected THEN sendMovement(e1) ELSE e1
        e3 == IF firePressed /\ e2.isConnected THEN sendFire(e2) ELSE e2
    IN  [e3 EXCEPT !.prevBtn = btn]

(* loop, src lines 692-708, after webSocket.loop(): d ms have passed *)
loop(e, d, pins) ==
    LET e1 == [e EXCEPT !.millis = @ + d]
    IN  IF e1.millis - e1.lastButtonCheck >= BUTTON_CHECK_INTERVAL
        THEN checkButtons([e1 EXCEPT !.lastButtonCheck = e1.millis], pins)
        ELSE e1

-----------------------------------------------------------------------------
(* Bounds of the model and the inputs it draws *)
MaxConns == 2          \* connections accepted over a run
MaxTanks == 2          \* uuids handed out to tanks over a run
MaxTicks == 3          \* runs of updateGame over a run
MaxClock == 8          \* steps of the clock over a run

(* The volley, a spec of its own below, needs a third tank for one bullet  *)
(* to meet two tanks that are not its owner: its runs hand out one uuid    *)
(* more, and MostTanks is the bound of the runs that rng belongs to.       *)
MaxVolleyTanks == 3    \* uuids handed out to tanks over a run of the volley
MaxVolleyConns == 3    \* connections accepted over a run of the volley

VolleyDraws ==
    [xs |-> {100, 160}, ys |-> {100}, angles |-> {0},
     obstacleTypes |-> {"WALL"}, powerupTypes |-> {"HEALTH"},
     mystery |-> {"HEALTH"}, roamTurns |-> {0},
     roamUps |-> {FALSE}, roamFires |-> {FALSE}]

MostTanks == IF rng = VolleyDraws THEN MaxVolleyTanks ELSE MaxTanks

TimeSteps == {500, 2500, 5000}

IPs == {"10.0.0.1", "10.0.0.2"}
Passwords == {ADMIN_PASSWORD, "guess"}

A20 == [i \in 1..NAME_CAP |-> "a"]
JoinInputs ==
    { [deviceId |-> <<"d">>, name |-> <<" ", "x">>],
      [deviceId |-> <<>>,    name |-> A20 \o <<"x">>],
      [deviceId |-> <<>>,    name |-> A20 \o <<"y">>] }

MoveInputs == { NoMove, [NoMove EXCEPT !.up = TRUE], [NoMove EXCEPT !.down = TRUE] }
RotateInputs == {0, Pi}

-----------------------------------------------------------------------------
Start(draws) ==
    /\ rng = draws
    /\ gameState = [tanks |-> EmptyMap, bullets |-> <<>>, obstacles |-> <<>>,
                    powerups |-> <<>>, scoreboard |-> <<>>, bannedIPs |-> {},
                    bots |-> EmptyMap]
    /\ clients = EmptyMap
    /\ timers = {}
    /\ now = 0
    /\ sched = [heartbeat |-> HEARTBEAT_INTERVAL, obstacle |-> OBSTACLE_SPAWN_INTERVAL,
                powerup |-> POWERUP_SPAWN_INTERVAL, ticks |-> 0, clock |-> 0]
    /\ nextId = [conn |-> 1, uuid |-> 1]
    /\ outbox = <<>>
    /\ last = [op |-> "init", conn |-> NoConn, arg |-> 0]
    /\ controller = Globals

Init == Start(AllDraws)

(* what last holds when no handler has done anything since the clock moved *)
Idle == [op |-> "idle", conn |-> NoConn, arg |-> 0]

(* the process runs until a callback throws what nothing catches *)
Running == last.op # "uncaughtException"

(* a callback of setInterval throws: the state it had built stays behind   *)
Uncaught(s, op) ==
    /\ Running
    /\ gameState' = s.gs
    /\ clients' = s.clients
    /\ timers' = s.timers
    /\ nextId' = s.nextId
    /\ outbox' = s.out
    /\ last' = [op |-> "uncaughtException", conn |-> NoConn, arg |-> op]
    /\ rng' = rng
    /\ controller' = controller

(* a callback of setInterval ends: its state becomes the state of the      *)
(* server, outbox the frames it sent; one that changed nothing and sent    *)
(* nothing leaves the server idle                                          *)
CommitDue(s, op) ==
    /\ Running
    /\ s.nextId.uuid <= MostTanks + 1
    /\ gameState' = s.gs
    /\ clients' = s.clients
    /\ timers' = s.timers
    /\ nextId' = s.nextId
    /\ outbox' = s.out
    /\ last' = IF s = Begin THEN Idle ELSE [op |-> op, conn |-> NoConn, arg |-> 0]
    /\ rng' = rng
    /\ controller' = controller

(* a handler ends: its state becomes the state of the server.  A handler   *)
(* that changed nothing and sent nothing leaves no trace.                   *)
Commit(s, op, c, arg) ==
    /\ Running
    /\ s.nextId.uuid <= MostTanks + 1
    /\ gameState' = s.gs
    /\ clients' = s.clients
    /\ timers' = s.timers
    /\ nextId' = s.nextId
    /\ IF s = Begin
       THEN UNCHANGED <<outbox, last>>
       ELSE outbox' = s.out /\ last' = [op |-> op, conn |-> c, arg |-> arg]
    /\ rng' = rng
    /\ controller' = controller

(* a frame arrives on an open connection that got past the ban check *)
Receiving(c) == c \in DOMAIN clients /\ clients[c].readyState = "OPEN" /\ clients[c].handlers

TargetIds == 0..MaxTanks

Accept(ips, most) ==
    /\ nextId.conn <= most
    /\ \E ip \in ips : Commit(OnConnection(Begin, nextId.conn, ip), "connection", nextId.conn, 0)
    /\ UNCHANGED <<now, sched>>

Connect == Accept(IPs, MaxConns)

Spectate ==
    /\ \E c \in DOMAIN clients : Receiving(c) /\ Commit(OnSpectate(Begin, c), "spectate", c, 0)
    /\ UNCHANGED <<now, sched>>

Join ==
    /\ \E c \in DOMAIN clients : Receiving(c) /\ Commit(OnJoin(Begin, c), "join", c, 0)
    /\ UNCHANGED <<now, sched>>

Move ==
    /\ \E c \in DOMAIN clients, moving \in MoveInputs :
          Receiving(c) /\ Commit(OnMove(Begin, c, moving), "move", c, 0)
    /\ UNCHANGED <<now, sched>>

Rotate ==
    /\ \E c \in DOMAIN clients, angle \in RotateInputs :
          Receiving(c) /\ Commit(OnRotate(Begin, c, angle), "rotate", c, angle)
    /\ UNCHANGED <<now, sched>>

FireOf(cs) ==
    /\ \E c \in cs \cap DOMAIN clients : Receiving(c) /\ Commit(OnFire(Begin, c), "fire", c, 0)
    /\ UNCHANGED <<now, sched>>

Fire == FireOf(DOMAIN clients)

AdminLogin ==
    /\ \E c \in DOMAIN clients, password \in Passwords :
          Receiving(c) /\ Commit(OnAdminLogin(Begin, c, password), "adminLogin", c, password)
    /\ UNCHANGED <<now, sched>>

AdminKick ==
    /\ \E c \in DOMAIN clients, targetId \in TargetIds :
          Receiving(c) /\ Commit(OnAdminKick(Begin, c, targetId), "adminKick", c, targetId)
    /\ UNCHANGED <<now, sched>>

AdminBan ==
    /\ \E c \in DOMAIN clients, targetId \in TargetIds :
          Receiving(c) /\ Commit(OnAdminBan(Begin, c, targetId), "adminBan", c, targetId)
    /\ UNCHANGED <<now, sched>>

AdminSpawnBot ==
    /\ \E c \in DOMAIN clients :
          Receiving(c) /\ \E s \in OnAdminSpawnBot(Begin, c) : Commit(s, "adminSpawnBot", c, 0)
    /\ UNCHANGED <<now, sched>>

AdminRemoveBot ==
    /\ \E c \in DOMAIN clients, botId \in TargetIds :
          Receiving(c) /\ Commit(OnAdminRemoveBot(Begin, c, botId), "adminRemoveBot", c, botId)
    /\ UNCHANGED <<now, sched>>

AdminResetScoreboard ==
    /\ \E c \in DOMAIN clients :
          Receiving(c) /\ Commit(OnAdminResetScoreboard(Begin, c), "adminResetScoreboard", c, 0)
    /\ UNCHANGED <<now, sched>>

AdminGetPlayers ==
    /\ \E c \in DOMAIN clients :
          Receiving(c) /\ Commit(OnAdminGetPlayers(Begin, c), "adminGetPlayers", c, 0)
    /\ UNCHANGED <<now, sched>>

SimulatorJoin ==
    /\ \E c \in DOMAIN clients, in \in JoinInputs, password \in Passwords :
          /\ Receiving(c)
          /\ \E s \in OnSimulatorJoin(Begin, c, in.deviceId, in.name, password) :
                Commit(s, "simulatorJoin", c, [deviceId |-> in.deviceId, name |-> in.name,
                                               adminPassword |-> password])
    /\ UNCHANGED <<now, sched>>

Esp32JoinOf(inputs) ==
    /\ \E c \in DOMAIN clients, in \in inputs :
          /\ Receiving(c)
          /\ \E s \in OnEsp32Join(Begin, c, in.deviceId, in.name) :
                Commit(s, "esp32Join", c, in)
    /\ UNCHANGED <<now, sched>>

Esp32Join == Esp32JoinOf(JoinInputs)

(* a controller that joins once, with a device id of its own *)
DeviceOfConn(c) == [i \in 1..c |-> "d"]

Esp32JoinOwn ==
    /\ \E c \in DOMAIN clients :
          /\ Receiving(c)
          /\ clients[c].playerId = NoTank
          /\ \E s \in OnEsp32Join(Begin, c, DeviceOfConn(c), <<"x">>) :
                Commit(s, "esp32Join", c, [deviceId |-> DeviceOfConn(c), name |-> <<"x">>])
    /\ UNCHANGED <<now, sched>>

(* a frame arrives, whatever it holds: last tells which, also when the    *)
(* server did nothing with it                                              *)
Message(frames) ==
    /\ Running
    /\ \E c \in DOMAIN clients, data \in frames :
          /\ Receiving(c)
          /\ \E s \in OnMessage(Begin, c, data) :
                /\ s.nextId.uuid <= MostTanks + 1
                /\ gameState' = s.gs
                /\ clients' = s.clients
                /\ timers' = s.timers
                /\ nextId' = s.nextId
                /\ outbox' = s.out
                /\ last' = [op |-> "message", conn |-> c, arg |-> data]
    /\ UNCHANGED <<now, sched, rng, controller>>

(* the close event: the client went away, or the end the server asked for *)
Close ==
    /\ \E c \in DOMAIN clients : Commit(OnClose(Begin, c), "close", c,
                                      [ended |-> clients[c].ended,
                                       playerId |-> clients[c].closurePlayerId])
    /\ UNCHANGED <<now, sched>>

(* ws.on('pong'), src lines 1714-1717 *)
Pong ==
    /\ \E c \in DOMAIN clients :
          /\ Receiving(c)
          /\ Commit([Begin EXCEPT !.clients[c].lastPong = now], "pong", c, 0)
    /\ UNCHANGED <<now, sched>>

Heartbeat ==
    /\ now >= sched.heartbeat
    /\ CommitDue(Probe(Begin, SortedSeq(DOMAIN clients)), "heartbeat")
    /\ sched' = [sched EXCEPT !.heartbeat = @ + HEARTBEAT_INTERVAL]
    /\ UNCHANGED now

Timeout ==
    /\ \E tm \in timers : tm.due <= now /\ Commit(OnTimer(Begin, tm), "timeout", NoConn, tm)
    /\ UNCHANGED <<now, sched>>

Run(most) ==
    /\ sched.ticks < most
    /\ IF Throwing(gameState) # {}
       THEN \E s \in updateGameThrown(Begin) : Uncaught(s, "updateGame")
       ELSE \E s \in updateGame(Begin) : CommitDue(s, "updateGame")
    /\ sched' = [sched EXCEPT !.ticks = @ + 1]
    /\ UNCHANGED now

Tick == Run(MaxTicks)

(* setInterval(updateGame, 1000 / CONFIG.TICK_RATE), src line 2034, as the *)
(* loop that it is: it runs on for as long as the process runs, uncounted  *)
GameLoop ==
    /\ IF Throwing(gameState) # {}
       THEN \E s \in updateGameThrown(Begin) : Uncaught(s, "updateGame")
       ELSE \E s \in updateGame(Begin) : CommitDue(s, "updateGame")
    /\ UNCHANGED <<now, sched>>

SpawnObstacle ==
    /\ now >= sched.obstacle
    /\ \E s \in spawnObstacle(Begin) : CommitDue(s, "spawnObstacle")
    /\ sched' = [sched EXCEPT !.obstacle = @ + OBSTACLE_SPAWN_INTERVAL]
    /\ UNCHANGED now

SpawnPowerup ==
    /\ now >= sched.powerup
    /\ \E s \in spawnPowerup(Begin, RandomPxXs, RandomPxYs) : CommitDue(s, "spawnPowerup")
    /\ sched' = [sched EXCEPT !.powerup = @ + POWERUP_SPAWN_INTERVAL]
    /\ UNCHANGED now

(* the clock moves on, by one of steps or up to the next callback that is   *)
(* due, at most `most` times and never past a callback that is due; dues    *)
(* are the times at which the setInterval callbacks that run are due        *)
Step(dues, steps, most) ==
    /\ Running
    /\ sched.clock < most
    /\ \E d \in steps \cup { t - now : t \in dues \cup { tm.due : tm \in timers } } :
          /\ d > 0
          /\ \A tm \in timers : now + d <= tm.due
          /\ \A due \in dues : now + d <= due
          /\ now' = now + d
    /\ sched' = [sched EXCEPT !.clock = @ + 1]
    /\ outbox' = <<>>
    /\ last' = Idle
    /\ UNCHANGED <<gameState, clients, timers, nextId, rng, controller>>

SnapshotOf(most) ==
    /\ sched.ticks < most
    /\ CommitDue(OnSnapshot(Begin), "gameState")
    /\ sched' = [sched EXCEPT !.ticks = @ + 1]
    /\ UNCHANGED now

Snapshot == SnapshotOf(MaxTicks)

Advance == Step({sched.heartbeat, sched.obstacle, sched.powerup}, TimeSteps, MaxClock)

Next ==
    \/ Connect \/ Spectate \/ Join \/ Move \/ Rotate \/ Fire
    \/ AdminLogin \/ AdminKick \/ AdminBan \/ AdminSpawnBot \/ AdminRemoveBot
    \/ AdminResetScoreboard \/ AdminGetPlayers \/ SimulatorJoin \/ Esp32Join
    \/ Close \/ Pong \/ Heartbeat \/ Timeout \/ Tick \/ Snapshot \/ SpawnObstacle
    \/ SpawnPowerup \/ Advance

Spec == Init /\ [][Next]_vars

-----------------------------------------------------------------------------
(* The session: connections, joins, the admin's kick and ban, the close     *)
(* handler and the heartbeat.  The game loop and the spawners are left out: *)
(* they add and remove no tank but a bot's and write no field of a client.  *)
OneDraw ==
    [xs |-> {100}, ys |-> {100}, angles |-> {0},
     obstacleTypes |-> {"BARREL"}, powerupTypes |-> {"INVINCIBILITY"},
     mystery |-> {"EXPLOSION"}, roamTurns |-> {0},
     roamUps |-> {FALSE}, roamFires |-> {FALSE}]

InitSession == Start(OneDraw)

NextSession ==
    \/ Connect \/ SimulatorJoin \/ Esp32Join \/ AdminLogin \/ AdminKick \/ AdminBan \/ Close

SpecSession == InitSession /\ [][NextSession]_vars

-----------------------------------------------------------------------------
(* The heartbeat: connections that join, answer the ping or stay silent,    *)
(* and the probe every HEARTBEAT_INTERVAL.                                  *)
MaxBeats == 4           \* heartbeat intervals over a run

AdvanceHeartbeat == Step({sched.heartbeat}, {}, MaxBeats)

ConnectHeartbeat == Accept({"10.0.0.1"}, MaxConns)

DeviceInputs == { in \in JoinInputs : Len(in.name) <= NAME_CAP + 1 /\ in.name[Len(in.name)] = "x" }

Esp32JoinHeartbeat == Esp32JoinOf(DeviceInputs)

NextHeartbeat ==
    ConnectHeartbeat \/ Esp32JoinHeartbeat \/ Pong \/ Heartbeat \/ Close \/ Timeout \/ AdvanceHeartbeat

SpecHeartbeat == InitSession /\ [][NextHeartbeat]_vars

-----------------------------------------------------------------------------
(* The powerups: one player on the spot where the powerups spawn, the       *)
(* spawner, the game loop that collects them and the timers that end them.  *)
PowerupDraws ==
    [xs |-> {100}, ys |-> {100}, angles |-> {0},
     obstacleTypes |-> {"BARREL"}, powerupTypes |-> {"SPEED", "INVINCIBILITY"},
     mystery |-> {"EXPLOSION"}, roamTurns |-> {0},
     roamUps |-> {FALSE}, roamFires |-> {FALSE}]

MaxPickupTicks == 4    \* runs of updateGame over a run of the powerups
MaxPickupClock == 7    \* steps of the clock over a run of the powerups

InitPowerups == Start(PowerupDraws)

ConnectPowerups == Accept({"10.0.0.1"}, 1)
TickPowerups == Run(MaxPickupTicks)
AdvancePowerups == Step({sched.powerup}, {}, MaxPickupClock)

NextPowerups ==
    ConnectPowerups \/ Esp32JoinOwn \/ TickPowerups \/ SpawnPowerup \/ Timeout
        \/ AdvancePowerups

SpecPowerups == InitPowerups /\ [][NextPowerups]_vars

-----------------------------------------------------------------------------
(* The combat: two players, each on a connection with a device of its own, *)
(* connected when the server starts, who join at any time and stand next   *)
(* to each other; their bullets, the mystery powerups of the spawner, the  *)
(* game loop and the timers that end the spawn protection and the          *)
(* invincibility.                                                          *)
CombatDraws ==
    [xs |-> {100, 160}, ys |-> {100}, angles |-> {0},
     obstacleTypes |-> {"BARREL"}, powerupTypes |-> {"MYSTERY"},
     mystery |-> {"EXPLOSION", "HEALTH", "INVINCIBILITY"}, roamTurns |-> {0},
     roamUps |-> {FALSE}, roamFires |-> {FALSE}]

MaxCombatTicks == 2    \* runs of updateGame over a run of the combat
MaxCombatClock == 2    \* steps of the clock over a run of the combat

InitCombat == Start(CombatDraws)

(* the connections are made before the clock has moved *)
Lobby == now = 0

ConnectCombat == Lobby /\ Accept({"10.0.0.1"}, MaxConns)

TickCombat == Run(MaxCombatTicks)
AdvanceCombat == Step({sched.powerup}, {}, MaxCombatClock)

NextCombat ==
    ConnectCombat \/ Esp32JoinOwn \/ Fire \/ TickCombat \/ SpawnPowerup \/ Timeout
        \/ AdvanceCombat

SpecCombat == InitCombat /\ [][NextCombat]_vars

-----------------------------------------------------------------------------
-----------------------------------------------------------------------------
(* The explosions: players that join, lose their spawn protection when its  *)
(* timer fires, and stand at, near or far from the epicentre of an          *)
(* explosion of one of the kinds the source sets off.                       *)
ExplosionDraws ==
    [xs |-> {100, 160, 300}, ys |-> {100}, angles |-> {0},
     obstacleTypes |-> {"BARREL"}, powerupTypes |-> {"MYSTERY"},
     mystery |-> {"EXPLOSION"}, roamTurns |-> {0},
     roamUps |-> {FALSE}, roamFires |-> {FALSE}]

MaxBlasts == 2         \* explosions over a run of the explosions
MaxBlastClock == 2     \* steps of the clock over a run of the explosions

(* the radius and damage of the barrel (src line 1010), of the crate bomb   *)
(* (src line 1647) and of the mystery powerup (src line 1024)               *)
Blasts ==
    { [radius |-> OBSTACLE_TYPES["BARREL"].explosionRadius,
       damage |-> OBSTACLE_TYPES["BARREL"].explosionDamage],
      [radius |-> CRATE_BOMB_RADIUS, damage |-> CRATE_BOMB_DAMAGE],
      [radius |-> MYSTERY_EXPLOSION_RADIUS, damage |-> MYSTERY_EXPLOSION_DAMAGE] }

InitExplosion == Start(ExplosionDraws)

ConnectExplosion == Lobby /\ Accept({"10.0.0.1"}, MaxConns)

(* createExplosion, src lines 1480-1497, called at a drawn epicentre *)
ExplodeOf(blasts) ==
    /\ sched.ticks < MaxBlasts
    /\ \E at \in randomPosition : \E b \in blasts :
          \E s \in createExplosion(Begin, at.x, at.y, b.radius, b.damage) :
             Commit(s, "createExplosion", NoConn,
                    [x |-> at.x, y |-> at.y, radius |-> b.radius, damage |-> b.damage])
    /\ sched' = [sched EXCEPT !.ticks = @ + 1]
    /\ UNCHANGED now

Explode == ExplodeOf(Blasts)

AdvanceExplosion == Step({}, {}, MaxBlastClock)

NextExplosion == ConnectExplosion \/ Esp32JoinOwn \/ Explode \/ Timeout \/ AdvanceExplosion

SpecExplosion == InitExplosion /\ [][NextExplosion]_vars

-----------------------------------------------------------------------------
(* The duel: two tanks that face each other at 60 px, players or a player   *)
(* and a bot an admin spawned, all in the world before the clock moves;     *)
(* they fire once their fire rate allows and the ticks move the bullets.    *)
DuelDraws ==
    [xs |-> {100, 160}, ys |-> {100}, angles |-> {0},
     obstacleTypes |-> {"BARREL"}, powerupTypes |-> {"MYSTERY"},
     mystery |-> {"EXPLOSION"}, roamTurns |-> {0},
     roamUps |-> {FALSE}, roamFires |-> {FALSE}]

MaxDuelTicks == 2      \* runs of updateGame over a run of the duel
MaxDuelClock == 4      \* steps of the clock over a run of the duel

InitDuel == Start(DuelDraws)

ConnectDuel == Lobby /\ Accept({"10.0.0.1"}, MaxConns)
AdminLoginDuel == Lobby /\ AdminLogin
SpawnBotDuel == Lobby /\ AdminSpawnBot
JoinDuel == Lobby /\ Esp32JoinOwn
(* the first connection is the one that fires *)
FireDuel == FireOf({1})
TickDuel == Run(MaxDuelTicks)
AdvanceDuel == Step({}, {BASE_FIRE_RATE}, MaxDuelClock)

NextDuel ==
    ConnectDuel \/ AdminLoginDuel \/ SpawnBotDuel \/ JoinDuel \/ FireDuel \/ TickDuel \/ Timeout
        \/ AdvanceDuel

SpecDuel == InitDuel /\ [][NextDuel]_vars

-----------------------------------------------------------------------------
(* The stacks: one player on the spot where the spawner puts SPEED, POWER  *)
(* and RANGE powerups, and the game loop that collects them.               *)
StackDraws ==
    [xs |-> {100}, ys |-> {100}, angles |-> {0},
     obstacleTypes |-> {"BARREL"}, powerupTypes |-> {"SPEED", "POWER", "RANGE"},
     mystery |-> {"EXPLOSION"}, roamTurns |-> {0},
     roamUps |-> {FALSE}, roamFires |-> {FALSE}]

MaxStackTicks == 3    \* runs of updateGame over a run of the stacks
MaxStackClock == 5    \* steps of the clock over a run of the stacks

InitStacks == Start(StackDraws)

ConnectStacks == Accept({"10.0.0.1"}, 1)
TickStacks == Run(MaxStackTicks)
AdvanceStacks == Step({sched.powerup}, {}, MaxStackClock)

NextStacks ==
    ConnectStacks \/ Esp32JoinOwn \/ TickStacks \/ SpawnPowerup \/ Timeout
        \/ AdvanceStacks

SpecStacks == InitStacks /\ [][NextStacks]_vars

-----------------------------------------------------------------------------
(* The admin: connections that join with a device of their own, log in as  *)
(* admin with the shared secret or a guess, and send the admin commands.   *)
NextAdmin ==
    \/ Connect \/ Esp32JoinOwn \/ AdminLogin \/ AdminKick \/ AdminBan \/ AdminSpawnBot
    \/ AdminRemoveBot \/ AdminResetScoreboard \/ AdminGetPlayers \/ Close

SpecAdmin == InitSession /\ [][NextAdmin]_vars

-----------------------------------------------------------------------------
(* The joins: connections that send join, and simulatorJoin with the       *)
(* shared secret or a guess, and close.                                    *)
NextJoin == Connect \/ Join \/ SimulatorJoin \/ Close

SpecJoin == InitSession /\ [][NextJoin]_vars

-----------------------------------------------------------------------------
(* The frames: connections that send text that is no JSON, JSON that is no *)
(* object, objects of no type or of a type the switch has no case for, and *)
(* the frames of a spectator, of an admin who logs in and spawns a bot, and *)
(* of a simulator that joins.                                              *)
Typed(type) == [NoData EXCEPT !.type = type]

StrayFrames ==
    { [NoData EXCEPT !.payload = "garbage"], [NoData EXCEPT !.payload = "null"],
      [NoData EXCEPT !.payload = "scalar"], NoData,
      Typed("ping"), Typed("JOIN"), Typed("adminlogin"),
      [Typed("kick") EXCEPT !.targetId = 1] }

KnownFrames ==
    { Typed("spectate"), Typed("adminSpawnBot"),
      [Typed("adminLogin") EXCEPT !.password = ADMIN_PASSWORD],
      [Typed("simulatorJoin") EXCEPT !.deviceId = <<"d">>, !.name = <<"x">>,
                                     !.adminPassword = ADMIN_PASSWORD] }

ConnectFrames == Accept({"10.0.0.1"}, MaxConns)
MessageFrames == Message(StrayFrames \cup KnownFrames)

NextFrames == ConnectFrames \/ MessageFrames \/ Close

SpecFrames == InitSession /\ [][NextFrames]_vars

-----------------------------------------------------------------------------
(* The commands: controllers that join and send move and rotate, with and  *)
(* without the field the handler reads, connections that close, and the    *)
(* game loop.                                                              *)
CommandFrames ==
    { [Typed("move") EXCEPT !.moving = [NoMove EXCEPT !.up = TRUE]],
      [Typed("move") EXCEPT !.moving = NoRecord],
      [Typed("rotate") EXCEPT !.angle = Pi] }

MaxCommandTicks == 2    \* runs of updateGame over a run of the commands
MaxCommandClock == 2    \* steps of the clock over a run of the commands

ConnectCommands == Lobby /\ Accept({"10.0.0.1"}, MaxConns)
JoinCommands == Lobby /\ Esp32JoinOwn
MessageCommands == Message(CommandFrames)
TickCommands == Run(MaxCommandTicks)
AdvanceCommands == Step({}, {}, MaxCommandClock)

NextCommands ==
    ConnectCommands \/ JoinCommands \/ MessageCommands \/ Close \/ TickCommands
        \/ Timeout \/ AdvanceCommands

SpecCommands == InitSession /\ [][NextCommands]_vars

-----------------------------------------------------------------------------
(* The bots: an admin who spawns and removes bots and kicks and bans, a    *)
(* controller that joins, connections that close or stay silent until the  *)
(* heartbeat ends them, and explosions that kill.                          *)
MaxBotClock == 4    \* steps of the clock over a run of the bots

ConnectBots == Lobby /\ Accept({"10.0.0.1"}, MaxConns)
LoginBots == Lobby /\ AdminLogin
JoinBots == Lobby /\ Esp32JoinOwn
SpawnBots == Lobby /\ AdminSpawnBot
ExplodeBots == ExplodeOf({[radius |-> OBSTACLE_TYPES["BARREL"].explosionRadius,
                           damage |-> OBSTACLE_TYPES["BARREL"].explosionDamage]})
AdvanceBots == Step({sched.heartbeat}, {}, MaxBotClock)

NextBots ==
    \/ ConnectBots \/ LoginBots \/ JoinBots \/ SpawnBots \/ AdminRemoveBot
    \/ AdminKick \/ AdminBan \/ Close \/ ExplodeBots \/ Heartbeat \/ Timeout \/ AdvanceBots

SpecBots == InitSession /\ [][NextBots]_vars

-----------------------------------------------------------------------------
(* The snapshots: controllers, simulators, spectators and an admin on two  *)
(* connections, kicks that leave a connection closing, tanks that join and *)
(* leave, and the broadcaster of the world.                                *)
MaxSnapshots == 2    \* snapshots over a run

ConnectSnapshots == Accept({"10.0.0.1"}, MaxConns)
SnapshotSnapshots == SnapshotOf(MaxSnapshots)

NextSnapshots ==
    \/ ConnectSnapshots \/ Esp32JoinOwn \/ SimulatorJoin \/ Spectate \/ AdminLogin
    \/ AdminKick \/ Close \/ SnapshotSnapshots

SpecSnapshots == InitSession /\ [][NextSnapshots]_vars

-----------------------------------------------------------------------------
(* The takeover: two connections that join for the same device, so that    *)
(* the later one takes the tank over, and both send move, rotate and fire. *)
OneDevice == { [deviceId |-> <<"d">>, name |-> <<"x">>] }

ConnectTakeover == Accept({"10.0.0.1"}, MaxConns)
JoinTakeover == Esp32JoinOf(OneDevice)

NextTakeover == ConnectTakeover \/ JoinTakeover \/ Move \/ Rotate \/ Fire \/ Close

SpecTakeover == InitSession /\ [][NextTakeover]_vars

-----------------------------------------------------------------------------
(* The volley: three controllers join next to each other, their spawn      *)
(* protection runs out, and the first one fires.                           *)
MaxVolleyTicks == 2    \* runs of updateGame over a run of the volley

InitVolley == Start(VolleyDraws)

ConnectVolley == Lobby /\ Accept({"10.0.0.1"}, MaxVolleyConns)
JoinVolley == Lobby /\ Esp32JoinOwn
FireVolley == FireOf({1})
TickVolley == Run(MaxVolleyTicks)
AdvanceVolley == Step({}, {SPAWN_PROTECTION_TIME}, 1)

NextVolley == ConnectVolley \/ JoinVolley \/ FireVolley \/ TickVolley \/ Timeout \/ AdvanceVolley

SpecVolley == InitVolley /\ [][NextVolley]_vars

-----------------------------------------------------------------------------
(* The flight: two controllers join side by side, facing east or west; the *)
(* first one fires when its last bullet has left, under spawn protection   *)
(* and after it, connections close, and the game loop runs on without end. *)
FlightDraws ==
    [xs |-> {100, 160}, ys |-> {100}, angles |-> {0, Pi},
     obstacleTypes |-> {"WALL"}, powerupTypes |-> {"HEALTH"},
     mystery |-> {"EXPLOSION"}, roamTurns |-> {0},
     roamUps |-> {FALSE}, roamFires |-> {FALSE}]

InitFlight == Start(FlightDraws)

ConnectFlight == Lobby /\ Accept({"10.0.0.1"}, MaxConns)
JoinFlight == Lobby /\ Esp32JoinOwn
(* one bullet in flight at a time *)
FireFlight == gameState.bullets = <<>> /\ FireOf({1})
AdvanceFlight == Step({}, {SPAWN_PROTECTION_TIME}, 1)

NextFlight ==
    ConnectFlight \/ JoinFlight \/ FireFlight \/ GameLoop \/ Timeout \/ AdvanceFlight \/ Close

(* The interval timer of the game loop fires again and again.  A tick      *)
(* moves every bullet, so while a bullet is in flight the loop is enabled  *)
(* and changes the state: for those states, which are the ones that        *)
(* matter here, WF_vars(GameLoop) says that the loop runs, and LoopRuns    *)
(* says just that, without the ENABLED of a whole tick.                    *)
LoopRuns == []<>(gameState.bullets = <<>>) \/ []<><<GameLoop>>_vars

SpecFlight == InitFlight /\ [][NextFlight]_vars /\ LoopRuns

-----------------------------------------------------------------------------
(* The barrels: the spawner puts barrels on two spots, controllers join    *)
(* there and drive, and the game loop runs once their spawn protection is  *)
(* over.                                                                   *)
BarrelDraws ==
    [xs |-> {100, 400}, ys |-> {100}, angles |-> {0},
     obstacleTypes |-> {"BARREL"}, powerupTypes |-> {"HEALTH"},
     mystery |-> {"HEALTH"}, roamTurns |-> {0},
     roamUps |-> {FALSE}, roamFires |-> {FALSE}]

MaxBarrelTicks == 1    \* runs of updateGame over a run of the barrels
MaxBarrelClock == 2    \* steps of the clock over a run of the barrels

InitBarrel == Start(BarrelDraws)

ConnectBarrel == Accept({"10.0.0.1"}, 1)
TickBarrel == Run(MaxBarrelTicks)
AdvanceBarrel == Step({sched.obstacle}, {}, MaxBarrelClock)

NextBarrel ==
    ConnectBarrel \/ Esp32JoinOwn \/ Move \/ SpawnObstacle \/ TickBarrel \/ Timeout
        \/ AdvanceBarrel

SpecBarrel == InitBarrel /\ [][NextBarrel]_vars

-----------------------------------------------------------------------------
(* The roaming bots: an admin who spawns bots on a map without players,    *)
(* next to the west edge and facing it, walls that appear, the game loop   *)
(* and the clock.                                                          *)
RoamDraws ==
    [xs |-> {101, 160}, ys |-> {300}, angles |-> {Pi},
     obstacleTypes |-> {"WALL"}, powerupTypes |-> {"HEALTH"},
     mystery |-> {"HEALTH"}, roamTurns |-> {0},
     roamUps |-> {TRUE}, roamFires |-> {FALSE}]

MaxRoamTicks == 3    \* runs of updateGame over a run of the roaming bots
MaxRoamClock == 2    \* steps of the clock over a run of the roaming bots

InitRoam == Start(RoamDraws)
ConnectRoam == Accept({"10.0.0.1"}, 1)
TickRoam == Run(MaxRoamTicks)
AdvanceRoam == Step({sched.obstacle}, {}, MaxRoamClock)

NextRoam ==
    ConnectRoam \/ AdminLogin \/ AdminSpawnBot \/ SpawnObstacle \/ TickRoam
        \/ Timeout \/ AdvanceRoam

SpecRoam == InitRoam /\ [][NextRoam]_vars

-----------------------------------------------------------------------------
(* The spawners: the two spawn timers fill an empty map with crates and    *)
(* pickups at one place, up to the caps and past the times at which the    *)
(* caps are reached; then a controller joins 150 px north of the crates,   *)
(* facing them, and shoots them open.                                      *)
SpawnerDraws ==
    [xs |-> {100}, ys |-> {100, 250}, angles |-> {HalfPi},
     obstacleTypes |-> {"CRATE"}, powerupTypes |-> {"HEALTH"},
     mystery |-> {"HEALTH"}, roamTurns |-> {0},
     roamUps |-> {FALSE}, roamFires |-> {FALSE}]

MaxSpawnClock == 47    \* steps of the clock over a run of the spawners

South(things) == \A i \in 1..Len(things) : things[i].y = Px(250)

InitSpawners == Start(SpawnerDraws)
ConnectSpawners == Accept({"10.0.0.1"}, 1)
JoinSpawners ==
    /\ Len(gameState.obstacles) >= MAX_OBSTACLES - 1
    /\ Len(gameState.powerups) >= MAX_POWERUPS - 1
    /\ Esp32JoinOwn
    /\ \A id \in DOMAIN gameState'.tanks : gameState'.tanks[id].y = Px(100)
SpawnCrate == SpawnObstacle /\ South(gameState'.obstacles)
SpawnPickup == SpawnPowerup /\ South(gameState'.powerups)
FireSpawners == Len(gameState.bullets) < 2 /\ FireOf({1})
TickSpawners == Len(gameState.bullets) = 2 /\ GameLoop
AdvanceSpawners == Step({sched.obstacle, sched.powerup}, {}, MaxSpawnClock)

NextSpawners ==
    ConnectSpawners \/ JoinSpawners \/ SpawnCrate \/ SpawnPickup \/ FireSpawners
        \/ TickSpawners \/ AdvanceSpawners

SpecSpawners == InitSpawners /\ [][NextSpawners]_vars

-----------------------------------------------------------------------------
(* The edge: a controller that joins in a corner of the range of           *)
(* randomPosition, facing the wall or away from it, drives forwards and    *)
(* backwards, and sends rotate with an angle and without one.              *)
EdgeDraws ==
    [xs |-> {50, MAP_WIDTH - 50}, ys |-> {50}, angles |-> {0, Pi},
     obstacleTypes |-> {"BARREL"}, powerupTypes |-> {"HEALTH"},
     mystery |-> {"HEALTH"}, roamTurns |-> {0},
     roamUps |-> {FALSE}, roamFires |-> {FALSE}]

EdgeFrames == { [Typed("rotate") EXCEPT !.angle = 0 - HalfPi], Typed("rotate") }

MaxEdgeTicks == 6    \* runs of updateGame over a run of the edge
MaxEdgeClock == 1    \* steps of the clock over a run of the edge

InitEdge == Start(EdgeDraws)
ConnectEdge == Accept({"10.0.0.1"}, 1)
MessageEdge == Message(EdgeFrames)
TickEdge == Run(MaxEdgeTicks)
AdvanceEdge == Step({}, {}, MaxEdgeClock)

NextEdge ==
    ConnectEdge \/ Esp32JoinOwn \/ Move \/ MessageEdge \/ TickEdge \/ Timeout \/ AdvanceEdge

SpecEdge == InitEdge /\ [][NextEdge]_vars

-----------------------------------------------------------------------------
(* The controller: the socket connects and drops, the server's frames      *)
(* arrive while it is connected, in any order, and the loop reads the      *)
(* buttons that are wired, at any level, every 10, 20 or 60 ms.            *)
MaxMillis == 160     \* ms of the controller's clock over a run of the controller
Wired == {"up", "fire"}
LoopSteps == {10, 20, 60}
ServerFrames == {"joined", "kicked", "banned", "gameState", "garbage"}
Readings == { pins \in [Buttons -> BOOLEAN] : \A b \in Buttons \ Wired : ~pins[b] }

(* a callback of the firmware has run *)
Ran(e, event, acked) ==
    /\ controller' = [e EXCEPT !.event = event, !.acked = acked]
    /\ UNCHANGED <<gameState, clients, timers, now, sched, nextId, rng, outbox, last>>

Cleared == [controller EXCEPT !.sent = <<>>]

WsConnected ==
    /\ ~controller.link
    /\ Ran([webSocketEvent(Cleared, "WStype_CONNECTED", "", NoTank) EXCEPT !.link = TRUE],
           "connected", FALSE)

WsDisconnected ==
    /\ Ran([webSocketEvent(Cleared, "WStype_DISCONNECTED", "", NoTank) EXCEPT !.link = FALSE],
           "disconnected", FALSE)

WsText ==
    /\ controller.link
    /\ \E text \in ServerFrames, playerId \in 1..MaxTanks :
          Ran(webSocketEvent(Cleared, "WStype_TEXT", text, playerId), text,
              CASE text = "joined" -> TRUE
                [] text \in {"kicked", "banned"} -> FALSE
                [] OTHER -> controller.acked)

Loop ==
    /\ \E d \in LoopSteps, pins \in Readings :
          /\ controller.millis + d <= MaxMillis
          /\ Ran(loop(Cleared, d, pins), "loop", controller.acked)

NextController == WsConnected \/ WsDisconnected \/ WsText \/ Loop

SpecController == InitSession /\ [][NextController]_vars

(* The frames of a step *)
FramesOf(out, type) == { i \in 1..Len(out) : out[i].msg.type = type }
Frames(type) == FramesOf(outbox, type)

Tanks == gameState.tanks

DurationMs(type) == POWERUP_TYPES[type].duration * 1000

(* the pickups of the last step that a later death in the step did not undo *)
Pickups ==
    { i \in Frames("powerupCollect") :
        /\ outbox[i].msg.tankId \in DOMAIN Tanks
        /\ outbox[i].msg.powerupType # "HEALTH"
        /\ ~\E j \in Frames("tankDeath") : j > i /\ outbox[j].msg.tankId = outbox[i].msg.tankId }

(* C1: after every tick, message handler and timer callback every tank   *)
(* has 0 <= hp <= maxHp: a tank driven to 0 or below is respawned with full *)
(* hp inside the step, and HEALTH never lifts hp above maxHp.               *)
C1_HpWithinBounds ==
    /\ \A id \in DOMAIN Tanks : 0 <= Tanks[id].hp /\ Tanks[id].hp <= Tanks[id].maxHp
    /\ \A i \in Frames("tankDeath") :
          outbox[i].msg.tankId \in DOMAIN Tanks
          => Tanks[outbox[i].msg.tankId].hp = Tanks[outbox[i].msg.tankId].maxHp

(* a tick has just killed a tank, which stands respawned at full hp *)
C1_Witness ==
    /\ last.op = "updateGame"
    /\ \E i \in Frames("tankDeath") :
          /\ outbox[i].msg.tankId \in DOMAIN Tanks
          /\ Tanks[outbox[i].msg.tankId].deaths > 0
          /\ Tanks[outbox[i].msg.tankId].hp = Tanks[outbox[i].msg.tankId].maxHp

(* C2: a tank whose spawnProtection or invincible flag is set takes no     *)
(* damage in any step: its hp does not drop, it is not respawned and no    *)
(* tankDeath is sent for it.                                               *)
C2_NoDamageWhileExempt ==
    [][ \A id \in DOMAIN Tanks :
          ((Tanks[id].spawnProtection \/ Tanks[id].invincible)
              /\ id \in DOMAIN gameState'.tanks)
          => /\ gameState'.tanks[id].hp >= Tanks[id].hp
             /\ gameState'.tanks[id].deaths = Tanks[id].deaths
             /\ \A i \in FramesOf(outbox', "tankDeath") : outbox'[i].msg.tankId # id ]_vars

(* a tank that has been under spawn protection since it was made stands,   *)
(* unharmed, within the radius of an explosion of the last tick            *)
C2_Witness ==
    /\ last.op = "updateGame"
    /\ \E i \in Frames("explosion") : \E id \in DOMAIN Tanks :
          /\ Tanks[id].spawnProtection
          /\ Tanks[id].deaths = 0
          /\ Tanks[id].hp = Tanks[id].maxHp
          /\ DistLt(Tanks[id], outbox[i].msg, Px(outbox[i].msg.radius))

NonBots == { id \in DOMAIN Tanks : ~Tanks[id].isBot }

JoinOps == {"simulatorJoin", "esp32Join"}

(* the device identifier of a join: data.deviceId || sanitizeTankName(data.name) *)
Identifier(in) == IF in.deviceId # <<>> THEN in.deviceId ELSE sanitizeTankName(in.name)

(* C3: at most one non-bot tank carries any given deviceId, whatever the   *)
(* joins, with a deviceId or one derived from the name, and the closes.    *)
C3_OneTankPerDevice ==
    \A a \in NonBots : \A b \in NonBots : Tanks[a].deviceId = Tanks[b].deviceId => a = b

(* two connections have joined the one tank of a device whose identifier   *)
(* was derived from the name, next to the tank of another device           *)
C3_Witness ==
    /\ last.op \in JoinOps
    /\ Cardinality(NonBots) = 2
    /\ \E c1 \in DOMAIN clients : \E c2 \in DOMAIN clients :
          /\ c1 # c2
          /\ clients[c1].playerId = clients[c2].playerId
          /\ clients[c1].playerId \in NonBots
          /\ Tanks[clients[c1].playerId].deviceId = Tanks[clients[c1].playerId].name

C5_RemovedOnlyByActiveClose ==
    [][ \A id \in NonBots :
          id \notin DOMAIN gameState'.tanks
          => last'.op = "close" /\ last'.conn = Tanks[id].ws ]_vars

(* the connection that has just closed had joined a tank that is still     *)
(* there, attached to a later connection                                   *)
C5_Witness ==
    /\ last.op = "close"
    /\ last.arg.playerId \in NonBots
    /\ Tanks[last.arg.playerId].ws # last.conn
    /\ Tanks[last.arg.playerId].ws \in DOMAIN clients

(* C6: a connection silent for longer than HEARTBEAT_TIMEOUT is terminated *)
(* by the next probe and no other is; once the close handler of a          *)
(* terminated connection has run, no tank is left whose active connection  *)
(* it was.                                                                 *)
C6_SilentConnectionAndTankRemoved ==
    /\ last.op = "heartbeat"
          => \A c \in DOMAIN clients :
                /\ clients[c].ended = "terminate"
                      => now - clients[c].lastPong > HEARTBEAT_TIMEOUT
                /\ (clients[c].lastPong >= 0 /\ now - clients[c].lastPong > HEARTBEAT_TIMEOUT)
                      => clients[c].readyState = "CLOSING"
    /\ (last.op = "close" /\ last.arg.ended = "terminate")
          => \A id \in NonBots : Tanks[id].ws # last.conn

(* C7: a ban records the address of every connection attached to the       *)
(* banned id and the ban list never shrinks; a connection from a recorded  *)
(* address is sent banned and closed as it connects, none of its messages  *)
(* is processed and no tank is made for it.                                *)
C7_BanRecordedAndEnforced ==
    [][ /\ gameState.bannedIPs \subseteq gameState'.bannedIPs
        /\ (last'.op = "adminBan" /\ last'.arg # NoTank)
              => \A c \in DOMAIN clients :
                    clients[c].playerId = last'.arg => clients[c].ip \in gameState'.bannedIPs
        /\ \A c \in DOMAIN clients' :
              (c \notin DOMAIN clients /\ clients'[c].ip \in gameState.bannedIPs)
              => /\ \E i \in FramesOf(outbox', "banned") : outbox'[i].to = {c}
                 /\ clients'[c].readyState = "CLOSING"
                 /\ ~clients'[c].handlers
        /\ \A c \in DOMAIN clients :
              ~clients[c].handlers
              => /\ last'.conn = c => last'.op = "close"
                 /\ \A id \in DOMAIN gameState'.tanks : gameState'.tanks[id].ws # c ]_vars

(* a connection from a banned address has just been turned away *)
C7_Witness ==
    /\ last.op = "connection"
    /\ clients[last.conn].ip \in gameState.bannedIPs
    /\ ~clients[last.conn].handlers
    /\ clients[last.conn].readyState = "CLOSING"
    /\ \E i \in Frames("banned") : outbox[i].to = {last.conn}

(* C8: every entry of every tank's powerup map holds between 1 and the     *)
(* type's maxStacks stacks, whatever was picked up, expired or respawned.  *)
C8_StacksWithinMax ==
    \A id \in DOMAIN Tanks : \A type \in DOMAIN Tanks[id].powerups :
        /\ 1 <= Tanks[id].powerups[type].stacks
        /\ Tanks[id].powerups[type].stacks <= POWERUP_TYPES[type].maxStacks

(* a tank that picked up more SPEED powerups in one tick than SPEED stacks *)
C8_Witness ==
    \E id \in DOMAIN Tanks :
        /\ "SPEED" \in DOMAIN Tanks[id].powerups
        /\ Tanks[id].powerups["SPEED"].stacks = POWERUP_TYPES["SPEED"].maxStacks
        /\ Cardinality({ i \in Pickups : outbox[i].msg.tankId = id
                                          /\ outbox[i].msg.powerupType = "SPEED" })
              > POWERUP_TYPES["SPEED"].maxStacks

(* C9: after a pickup at time now the entry of the type expires at         *)
(* now + duration when the duration is finite, whether the entry was       *)
(* absent, expired, below or at its max stacks, and is marked as never     *)
(* expiring (0) when the duration is zero.                                 *)
C9_ExpiryRefreshed ==
    \A i \in Pickups :
        LET tank == Tanks[outbox[i].msg.tankId]
            type == outbox[i].msg.powerupType
        IN  /\ type \in DOMAIN tank.powerups
            /\ tank.powerups[type].expiresAt =
                  IF DurationMs(type) > 0 THEN now + DurationMs(type) ELSE 0

(* INVINCIBILITY picked up again while the entry of an earlier pickup, at  *)
(* its max stacks, had not expired: the timer of the earlier one is pending *)
C9_Witness ==
    \E i \in Pickups :
        /\ outbox[i].msg.powerupType = "INVINCIBILITY"
        /\ \E tm \in timers :
              /\ tm.kind = "invincibility" /\ tm.tank = outbox[i].msg.tankId
              /\ tm.due > now
              /\ tm.expiresAt < Tanks[tm.tank].invincibilityEnd

(* C10: the invincible flag and the INVINCIBILITY entry of a tank go away  *)
(* only when the timer of the latest application fires; the timer of a     *)
(* superseded application leaves both.                                     *)
C10_OnlyLatestTimerClears ==
    [][ \A id \in DOMAIN Tanks :
          (/\ Tanks[id].invincible
           /\ id \in DOMAIN gameState'.tanks
           /\ \/ ~gameState'.tanks[id].invincible
              \/ "INVINCIBILITY" \in DOMAIN Tanks[id].powerups
                    /\ "INVINCIBILITY" \notin DOMAIN gameState'.tanks[id].powerups)
          => /\ last'.op = "timeout"
             /\ last'.arg.kind = "invincibility"
             /\ last'.arg.tank = id
             /\ last'.arg.expiresAt = Tanks[id].invincibilityEnd ]_vars

(* the timer of a superseded application has just fired on a tank that is  *)
(* still invincible                                                        *)
C10_Witness ==
    /\ last.op = "timeout"
    /\ last.arg.kind = "invincibility"
    /\ last.arg.tank \in DOMAIN Tanks
    /\ last.arg.expiresAt < Tanks[last.arg.tank].invincibilityEnd
    /\ Tanks[last.arg.tank].invincible
    /\ "INVINCIBILITY" \in DOMAIN Tanks[last.arg.tank].powerups

(* D * (1 - d / r) = D - D * d / r in hit-point units, for d in length   *)
(* units: a hit point is HpUnit \div Milli hit-point units per length unit *)
Falloff(damage, radius, d) == Hp(damage) - ((HpUnit \div Milli) * damage * d) \div radius

(* C11: an explosion of peak damage D and radius r lowers the hp of an     *)
(* unprotected tank at distance d < r by D * (1 - d / r) when that leaves  *)
(* the tank hp above 0, respawns it at full hp otherwise, and leaves the   *)
(* hp of an unprotected tank at d >= r as it was.                          *)
C11_ExplosionFalloff ==
    [][ last'.op = "createExplosion"
        => \A id \in DOMAIN Tanks :
              LET tank == Tanks[id]
                  after == gameState'.tanks[id]
                  d == distance(last'.arg, tank)
                  left == tank.hp - Falloff(last'.arg.damage, last'.arg.radius, d)
              IN  ~(tank.spawnProtection \/ tank.invincible)
                  => IF ~(d < Px(last'.arg.radius)) THEN after.hp = tank.hp
                     ELSE IF left > 0 THEN after.hp = left
                     ELSE after.hp = Hp(BASE_HEALTH) /\ after.deaths = tank.deaths + 1 ]_vars

(* C11 as stated: whatever the hp of the tank, the explosion leaves it     *)
(* lower by D * (1 - d / r) when d < r and as it was when d >= r.          *)
C11_AsStated ==
    [][ last'.op = "createExplosion"
        => \A id \in DOMAIN Tanks :
              LET tank == Tanks[id]
                  after == gameState'.tanks[id]
                  d == distance(last'.arg, tank)
                  left == tank.hp - Falloff(last'.arg.damage, last'.arg.radius, d)
              IN  ~(tank.spawnProtection \/ tank.invincible)
                  => IF ~(d < Px(last'.arg.radius)) THEN after.hp = tank.hp
                     ELSE after.hp = left ]_vars

(* an explosion has just hurt one unprotected tank inside its radius, off  *)
(* its epicentre, and left another, outside the radius, at full hp         *)
C11_Witness ==
    /\ last.op = "createExplosion"
    /\ \E a \in DOMAIN Tanks : \E b \in DOMAIN Tanks :
          /\ ~Tanks[a].spawnProtection /\ Tanks[a].deaths = 0
          /\ distance(last.arg, Tanks[a]) > 0
          /\ distance(last.arg, Tanks[a]) < Px(last.arg.radius)
          /\ Tanks[a].hp = Hp(BASE_HEALTH)
                - Falloff(last.arg.damage, last.arg.radius, distance(last.arg, Tanks[a]))
          /\ ~Tanks[b].spawnProtection /\ Tanks[b].deaths = 0
          /\ distance(last.arg, Tanks[b]) >= Px(last.arg.radius)
          /\ Tanks[b].hp = Hp(BASE_HEALTH)

(* C12: a barrel explosion at distance 0 from an unprotected tank with hp  *)
(* 100 respawns the tank in the same step, with a tankDeath frame for it   *)
(* whose killerId is null, and changes no tank's score or kills.           *)
C12_BarrelKillsAtEpicentre ==
    [][ (/\ last'.op = "createExplosion"
         /\ last'.arg.radius = OBSTACLE_TYPES["BARREL"].explosionRadius
         /\ last'.arg.damage = OBSTACLE_TYPES["BARREL"].explosionDamage)
        => \A id \in DOMAIN Tanks :
              (/\ ~(Tanks[id].spawnProtection \/ Tanks[id].invincible)
               /\ Tanks[id].hp = Hp(BASE_HEALTH)
               /\ Tanks[id].x = last'.arg.x /\ Tanks[id].y = last'.arg.y)
              => /\ gameState'.tanks[id].hp = Hp(BASE_HEALTH)
                 /\ gameState'.tanks[id].deaths = Tanks[id].deaths + 1
                 /\ gameState'.tanks[id].spawnProtection
                 /\ \E i \in FramesOf(outbox', "tankDeath") :
                       /\ outbox'[i].msg.tankId = id
                       /\ "killerId" \in DOMAIN outbox'[i].msg
                       /\ outbox'[i].msg.killerId = "null"
                 /\ \A other \in DOMAIN Tanks :
                       /\ gameState'.tanks[other].score = Tanks[other].score
                       /\ gameState'.tanks[other].kills = Tanks[other].kills ]_vars

(* the bullets of a tank in a list of bullets, and those of them that have *)
(* moved since they were fired                                             *)
BulletsOf(bullets, owner) == { i \in 1..Len(bullets) : bullets[i].ownerId = owner }

FlownOf(bullets, owner) ==
    { i \in BulletsOf(bullets, owner) :
        bullets[i].x # bullets[i].startX \/ bullets[i].y # bullets[i].startY }

(* C13: each hit of a bullet of base damage takes 25 hp from an            *)
(* unprotected tank, so that three hits leave 25 of 100; the hit that      *)
(* takes the last hp respawns the tank with one more death, gives the      *)
(* tank that fired one kill and 100 points for a player or 50 for a bot,   *)
(* and sends tankDeath with the id of the tank that fired as killerId.     *)
(* Stated for a world of two tanks, where every bullet of the one that     *)
(* left the list without having flown out of range has hit the other.      *)
C13_FourthHitKills ==
    [][ (last'.op = "updateGame" /\ Cardinality(DOMAIN Tanks) = 2)
        => \A a \in DOMAIN Tanks : \A b \in DOMAIN Tanks \ {a} :
              LET hits == Cardinality(BulletsOf(gameState.bullets, a))
                             - Cardinality(FlownOf(gameState'.bullets, a))
                  left == Tanks[b].hp - hits * Hp(BASE_DAMAGE)
                  deaths == { i \in FramesOf(outbox', "tankDeath") : outbox'[i].msg.tankId = b }
              IN  IF left > 0
                  THEN /\ gameState'.tanks[b].hp = left
                       /\ gameState'.tanks[b].deaths = Tanks[b].deaths
                       /\ deaths = {}
                       /\ gameState'.tanks[a].kills = Tanks[a].kills
                       /\ gameState'.tanks[a].score = Tanks[a].score
                  ELSE /\ gameState'.tanks[b].hp = Hp(BASE_HEALTH)
                       /\ gameState'.tanks[b].deaths = Tanks[b].deaths + 1
                       /\ Cardinality(deaths) = 1
                       /\ \A i \in deaths : /\ outbox'[i].msg.killerId = a
                                            /\ outbox'[i].msg.wasBot = Tanks[b].isBot
                       /\ gameState'.tanks[a].kills = Tanks[a].kills + 1
                       /\ gameState'.tanks[a].score
                             = Tanks[a].score + (IF Tanks[b].isBot THEN BOT_KILL_POINTS
                                                 ELSE HUMAN_KILL_POINTS) ]_vars

(* the tick before last left a player at 25 hp after three hits, and the   *)
(* last tick, with the fourth hit, has killed it                           *)
C13_Witness ==
    /\ last.op = "updateGame"
    /\ sched.ticks = 2
    /\ \E i \in Frames("tankDeath") : \E a \in DOMAIN Tanks : \E b \in DOMAIN Tanks :
          /\ outbox[i].msg.tankId = b /\ outbox[i].msg.killerId = a
          /\ ~Tanks[b].isBot /\ Tanks[b].deaths = 1 /\ Tanks[b].hp = Hp(BASE_HEALTH)
          /\ Tanks[a].kills = 1 /\ Tanks[a].score = HUMAN_KILL_POINTS
          /\ Tanks[a].lastFire >= SPAWN_PROTECTION_TIME + 3 * BASE_FIRE_RATE


(* n to the power k *)
RECURSIVE Pow(_, _)
Pow(n, k) == IF k = 0 THEN 1 ELSE n * Pow(n, k - 1)

(* the stacks a tank holds of a type *)
StacksOf(tank, type) ==
    IF type \in DOMAIN tank.powerups THEN tank.powerups[type].stacks ELSE 0

(* the pickups of a type by a tank among the frames of the step that is taken *)
PickedUp(id, type) ==
    Cardinality({ i \in 1..Len(outbox') :
                     /\ outbox'[i].msg.type = "powerupCollect"
                     /\ outbox'[i].msg.tankId = id
                     /\ outbox'[i].msg.powerupType = type })

(* the base value times the multiplier of the type, once per stack *)
Multiplied(base, type, stacks) ==
    (base * Pow(POWERUP_TYPES[type].num, stacks)) \div Pow(POWERUP_TYPES[type].den, stacks)

(* C14: SPEED, POWER and RANGE picked up n times by a tank that holds k    *)
(* stacks leave it with min(maxStacks, k + n) stacks, so that four SPEED   *)
(* powerups in a row leave 3, and the effective speed, damage and range of *)
(* the tank are then the base values times the multiplier of the type,     *)
(* once per stack that is held.                                            *)
C14_MultiplierPerStack ==
    [][ last'.op = "updateGame"
        => \A id \in DOMAIN Tanks : \A type \in {"SPEED", "POWER", "RANGE"} :
              LET after == gameState'.tanks[id]
                  stats == getEffectiveStats(after, now')
              IN  /\ StacksOf(after, type) =
                        Min(POWERUP_TYPES[type].maxStacks,
                            StacksOf(Tanks[id], type) + PickedUp(id, type))
                  /\ stats.speed =
                        Multiplied(Px(BASE_TANK_SPEED), "SPEED", StacksOf(after, "SPEED"))
                  /\ stats.damage =
                        Multiplied(Hp(BASE_DAMAGE), "POWER", StacksOf(after, "POWER"))
                  /\ stats.range =
                        Multiplied(Px(BASE_FIRE_RANGE), "RANGE", StacksOf(after, "RANGE")) ]_vars

(* a tank without a SPEED stack has picked up four SPEED powerups in one   *)
(* tick and holds three stacks, with the speed of 3 * 1.3 * 1.3 * 1.3 and  *)
(* a POWER stack besides                                                   *)
C14_Witness ==
    /\ last.op = "updateGame"
    /\ \E id \in DOMAIN Tanks :
          /\ Cardinality({ i \in Pickups : outbox[i].msg.tankId = id
                                            /\ outbox[i].msg.powerupType = "SPEED" }) = 4
          /\ StacksOf(Tanks[id], "SPEED") = 3
          /\ getEffectiveStats(Tanks[id], now).speed = 6591
          /\ StacksOf(Tanks[id], "POWER") >= 1


(* C15: on a connection without the admin bit each of adminKick, adminBan, *)
(* adminSpawnBot, adminRemoveBot, adminResetScoreboard and adminGetPlayers  *)
(* leaves the state of the server as it was and sends nothing, whatever    *)
(* its target; an adminLogin with a wrong password leaves the world and    *)
(* the admin bit as they were; and the admin bit of a connection is set    *)
(* only by an adminLogin of that connection with the shared secret.        *)
C15_AdminOnly ==
    /\ [](\A c \in DOMAIN clients :
            (Receiving(c) /\ ~clients[c].isAdmin)
            => /\ \A targetId \in TargetIds :
                     /\ OnAdminKick(Begin, c, targetId) = Begin
                     /\ OnAdminBan(Begin, c, targetId) = Begin
                     /\ OnAdminRemoveBot(Begin, c, targetId) = Begin
               /\ OnAdminSpawnBot(Begin, c) = {Begin}
               /\ OnAdminResetScoreboard(Begin, c) = Begin
               /\ OnAdminGetPlayers(Begin, c) = Begin
               /\ \A password \in Passwords \ {ADMIN_PASSWORD} :
                     LET s == OnAdminLogin(Begin, c, password)
                     IN  /\ s.gs = gameState
                         /\ s.clients = clients
                         /\ s.timers = timers)
    /\ [][ \A c \in DOMAIN clients :
             (~clients[c].isAdmin /\ c \in DOMAIN clients' /\ clients'[c].isAdmin)
             => /\ last'.op = "adminLogin"
                /\ last'.conn = c
                /\ last'.arg = ADMIN_PASSWORD ]_vars

(* a connection that is open and not an admin has had its adminLogin       *)
(* refused, in a world with a bot, a player and a connection that is admin *)
C15_Witness ==
    /\ last.op = "adminLogin"
    /\ last.arg # ADMIN_PASSWORD
    /\ Receiving(last.conn)
    /\ ~clients[last.conn].isAdmin
    /\ \E i \in Frames("adminLoginFailed") : outbox[i].to = {last.conn}
    /\ \E id \in DOMAIN Tanks : Tanks[id].isBot
    /\ \E id \in DOMAIN Tanks : ~Tanks[id].isBot
    /\ \E c \in DOMAIN clients : clients[c].isAdmin


(* the step that is taken is a join that the server rejects *)
RejectedJoin ==
    \/ last'.op = "join"
    \/ last'.op = "simulatorJoin" /\ last'.arg.adminPassword # ADMIN_PASSWORD

(* a simulatorJoin with the shared secret on connection c attaches a tank  *)
(* to it and answers joined                                                *)
ValidJoinSucceeds(c) ==
    \A in \in JoinInputs :
       \A s \in OnSimulatorJoin(Begin, c, in.deviceId, in.name, ADMIN_PASSWORD) :
          /\ s.clients[c].closurePlayerId \in DOMAIN s.gs.tanks
          /\ s.gs.tanks[s.clients[c].closurePlayerId].ws = c
          /\ \E i \in 1..Len(s.out) :
                /\ s.out[i].to = {c}
                /\ s.out[i].msg.type = "joined"
                /\ s.out[i].msg.playerId = s.clients[c].closurePlayerId

(* C16: a join, and a simulatorJoin whose adminPassword is not the shared  *)
(* secret, send one error message to the sender and nothing else, leave    *)
(* the world, the timers and every connection as they were, so that no     *)
(* tank is created or reattached, and leave the connection open: a         *)
(* simulatorJoin with the shared secret that follows on it succeeds.       *)
C16_RejectedJoin ==
    /\ []((last.op = "join"
            \/ (last.op = "simulatorJoin" /\ last.arg.adminPassword # ADMIN_PASSWORD))
           => ValidJoinSucceeds(last.conn))
    /\ [][ RejectedJoin
        => /\ gameState' = gameState
           /\ timers' = timers
           /\ nextId' = nextId
           /\ clients' = clients
           /\ Len(outbox') = 1
           /\ outbox'[1].to = {last'.conn}
           /\ outbox'[1].msg.type = "error"
           /\ clients'[last'.conn].readyState = "OPEN" ]_vars

(* a simulatorJoin with a wrong password has been refused for a device     *)
(* whose tank is in the world, attached to another connection, on a        *)
(* connection that has no tank                                             *)
C16_Witness ==
    /\ last.op = "simulatorJoin"
    /\ last.arg.adminPassword # ADMIN_PASSWORD
    /\ clients[last.conn].closurePlayerId = NoTank
    /\ \E i \in Frames("error") : outbox[i].to = {last.conn}
    /\ \E id \in DOMAIN Tanks :
          /\ Tanks[id].deviceId = Identifier(last.arg)
          /\ Tanks[id].ws # last.conn


(* a frame the server has no handler for *)
Stray(data) == data.payload # "object" \/ data.type \notin MessageTypes

(* C17: a frame that JSON.parse rejects, that holds no object, or whose    *)
(* type the switch has no case for, leaves the world, the timers and every *)
(* connection (its tank, its admin bit, its readyState) as they were, and  *)
(* sends nothing.                                                          *)
C17_StrayFrameIgnored ==
    [][ (last'.op = "message" /\ Stray(last'.arg))
        => /\ gameState' = gameState
           /\ clients' = clients
           /\ timers' = timers
           /\ nextId' = nextId
           /\ outbox' = <<>>
           /\ last'.conn \in DOMAIN clients'
           /\ clients'[last'.conn].readyState = "OPEN" ]_vars

(* a stray frame has arrived on a connection that is admin and has a tank, *)
(* while a spectator is connected and a bot is in the world                *)
C17_Witness ==
    /\ last.op = "message"
    /\ Stray(last.arg)
    /\ last.arg.payload = "garbage"
    /\ clients[last.conn].isAdmin
    /\ clients[last.conn].closurePlayerId \in DOMAIN Tanks
    /\ \E c \in DOMAIN clients : c # last.conn /\ clients[c].isSpectator
    /\ \E id \in DOMAIN Tanks : Tanks[id].isBot


(* C18: whatever frames have arrived and whatever connections have closed, *)
(* no run of updateGame ends in an exception: the game loop goes on.       *)
C18_TicksComplete == last.op # "uncaughtException"


(* C19: a bot tank leaves the world only in a step of adminRemoveBot that  *)
(* names it, sent on a connection that is admin; a close, the heartbeat, a *)
(* kick, a ban and a death leave every bot in the world; and a step of     *)
(* adminRemoveBot leaves every tank that is no bot as it was.              *)
C19_BotsLeaveByRemoveBot ==
    [][ /\ \A id \in DOMAIN Tanks :
              (Tanks[id].isBot /\ id \notin DOMAIN gameState'.tanks)
              => /\ last'.op = "adminRemoveBot"
                 /\ last'.arg = id
                 /\ last'.conn \in DOMAIN clients
                 /\ clients[last'.conn].isAdmin
        /\ last'.op = "adminRemoveBot"
              => \A id \in DOMAIN Tanks :
                    ~Tanks[id].isBot
                    => id \in DOMAIN gameState'.tanks /\ gameState'.tanks[id] = Tanks[id] ]_vars

(* a bot that died once is in the world after the heartbeat has ended the  *)
(* connection of the admin that spawned it and the connection has closed   *)
C19_Witness ==
    /\ last.op = "close"
    /\ last.arg.ended = "terminate"
    /\ \E id \in DOMAIN Tanks : Tanks[id].isBot /\ Tanks[id].deaths >= 1
    /\ \A c \in DOMAIN clients : ~clients[c].isAdmin


(* the types of the frames the server sends to one connection with sendTo *)
SendToTypes ==
    {"banned", "spectateJoined", "error", "adminLoginSuccess", "adminLoginFailed", "kicked",
     "playerList", "joined"}

(* the frames of the last step that were broadcast *)
Broadcasts == { i \in 1..Len(outbox) : outbox[i].msg.type \notin SendToTypes }

(* C20: no frame that is broadcast, the gameState snapshot included, goes  *)
(* to a connection that joined with esp32Join, and each snapshot goes to   *)
(* every other open connection; esp32Join marks the connection, and the    *)
(* mark stays for as long as the connection exists.                        *)
C20_ControllersGetNoBroadcast ==
    /\ [](\A i \in Broadcasts : \A c \in DOMAIN clients :
             /\ clients[c].isESP32 => c \notin outbox[i].to
             /\ (outbox[i].msg.type = "gameState" /\ clients[c].readyState = "OPEN"
                    /\ ~clients[c].isESP32)
                => c \in outbox[i].to)
    /\ [][ /\ last'.op = "esp32Join" => clients'[last'.conn].isESP32
           /\ \A c \in DOMAIN clients :
                 (clients[c].isESP32 /\ c \in DOMAIN clients') => clients'[c].isESP32 ]_vars

(* a snapshot has gone to the one connection that is open and no           *)
(* controller, while a controller is connected and open                    *)
C20_Witness ==
    /\ last.op = "gameState"
    /\ \E i \in Frames("gameState") :
          /\ outbox[i].msg.tanks # <<>>
          /\ \E c, d \in DOMAIN clients :
                /\ clients[c].isESP32 /\ clients[c].readyState = "OPEN"
                /\ ~clients[d].isESP32 /\ clients[d].readyState = "OPEN"
                /\ outbox[i].to = {d}


(* C21: once the close handler of a connection has run, no tank that is no *)
(* bot has that connection as its active one, however many joins the       *)
(* connection had sent.                                                    *)
C21_NoTankOfClosedConnection ==
    last.op = "close" => \A id \in NonBots : Tanks[id].ws # last.conn


(* C22: a move, rotate or fire that arrives on a connection whose tank has *)
(* been taken over by a later connection leaves the moving and the angle   *)
(* of that tank as they were and adds no bullet.                           *)
C22_StaleConnectionIgnored ==
    [][ \A c \in DOMAIN clients :
          (/\ last'.op \in {"move", "rotate", "fire"}
           /\ last'.conn = c
           /\ clients[c].closurePlayerId \in DOMAIN Tanks
           /\ Tanks[clients[c].closurePlayerId].ws # c
           /\ Tanks[clients[c].closurePlayerId].ws \in DOMAIN clients)
          => LET id == clients[c].closurePlayerId
             IN  /\ gameState'.tanks[id].moving = Tanks[id].moving
                 /\ gameState'.tanks[id].angle = Tanks[id].angle
                 /\ gameState'.bullets = gameState.bullets ]_vars

(* checkCollision of a bullet with a tank that is not its owner, or with   *)
(* an obstacle, at the place where the bullet is                           *)
Overlapping(bullet) ==
    \/ \E id \in DOMAIN Tanks :
          id # bullet.ownerId /\ checkCollision(bullet, Tanks[id], BULLET_SIZE, TANK_SIZE)
    \/ \E i \in 1..Len(gameState.obstacles) :
          checkCollision(bullet, gameState.obstacles[i], BULLET_SIZE,
                         gameState.obstacles[i].size)

(* C23: when a tick has run, no bullet that is still in the world overlaps *)
(* a tank other than its owner or an obstacle: a bullet is destroyed at    *)
(* its first collision and does not pass through.                          *)
C23_BulletsDoNotPassThrough ==
    last.op = "updateGame" =>
        \A i \in 1..Len(gameState.bullets) : ~Overlapping(gameState.bullets[i])

(* the tanks that a step damaged: their hp went down, or they died of it   *)
(* and were respawned at full hp                                           *)
Struck ==
    { id \in DOMAIN Tanks \cap DOMAIN gameState'.tanks :
        \/ gameState'.tanks[id].hp < Tanks[id].hp
        \/ gameState'.tanks[id].deaths > Tanks[id].deaths }

(* C24: a bullet applies its damage to at most one tank: in a world        *)
(* without obstacles and powerups, where only bullets do damage, a tick    *)
(* damages no more tanks than there were bullets in the world, also when   *)
(* several tanks overlap the place of a bullet.                            *)
C24_OneTargetPerBullet ==
    [][ last'.op = "updateGame" => Cardinality(Struck) <= Len(gameState.bullets) ]_vars

(* the bullets of a tank that a step created: a bullet that has not moved   *)
(* yet and that a handler appended to the collection, or that is there     *)
(* after a tick, which moves every bullet that was there before            *)
CreatedBy(id) ==
    { i \in 1..Len(gameState'.bullets) :
        /\ gameState'.bullets[i].ownerId = id
        /\ gameState'.bullets[i].x = gameState'.bullets[i].startX
        /\ gameState'.bullets[i].y = gameState'.bullets[i].startY
        /\ (last'.op = "updateGame" \/ i > Len(gameState.bullets)) }

(* C25: for every tank, player or bot, a step creates at most one bullet,  *)
(* creates it only when fireRate has passed since lastFire and then sets   *)
(* lastFire to the time of the step; a step that creates no bullet of the  *)
(* tank leaves its lastFire as it was, so lastFire is the time of its last *)
(* bullet and any two of its bullets are created fireRate apart.  A fire   *)
(* request that arrives earlier than that changes nothing and sends        *)
(* nothing.                                                                *)
C25_FireRate ==
    /\ [][ \A id \in DOMAIN Tanks \cap DOMAIN gameState'.tanks :
             /\ Cardinality(CreatedBy(id)) <= 1
             /\ CreatedBy(id) # {} =>
                   /\ now - Tanks[id].lastFire >= Tanks[id].fireRate
                   /\ Tanks[id].fireRate = BASE_FIRE_RATE
                   /\ gameState'.tanks[id].lastFire = now
             /\ CreatedBy(id) = {} => gameState'.tanks[id].lastFire = Tanks[id].lastFire ]_vars
    /\ [](\A c \in DOMAIN clients :
             (/\ Receiving(c)
              /\ clients[c].closurePlayerId \in DOMAIN Tanks
              /\ now - Tanks[clients[c].closurePlayerId].lastFire < BASE_FIRE_RATE)
             => OnFire(Begin, c) = Begin)

(* a tank that has two bullets in the world, the second one fired fireRate *)
(* after the first, and whose next fire request is refused                 *)
C25_Witness ==
    /\ last.op = "fire"
    /\ \E id \in NonBots :
          /\ Tanks[id].lastFire = BASE_FIRE_RATE
          /\ now - Tanks[id].lastFire < Tanks[id].fireRate
          /\ Cardinality({ i \in 1..Len(gameState.bullets) :
                             gameState.bullets[i].ownerId = id }) = 2

SpawnTimersOf(id) == { tm \in timers : tm.kind = "spawnProtection" /\ tm.tank = id }

(* C27: the spawnProtection of a tank stays set from its creation or       *)
(* respawn until the timer armed by that very spawn fires, 5000 ms later.  *)
(* A tank is protected exactly while one spawn timer of it is pending, and *)
(* never has two: a step that creates or respawns a tank leaves it         *)
(* protected with the one timer due 5000 ms from now, and the protection   *)
(* is cleared only by the callback of that timer, when it is due.          *)
C27_ProtectionLastsItsWindow ==
    /\ [](\A id \in DOMAIN Tanks :
             /\ Cardinality(SpawnTimersOf(id)) <= 1
             /\ Tanks[id].spawnProtection <=> SpawnTimersOf(id) # {})
    /\ [][ \A id \in DOMAIN gameState'.tanks :
             /\ (id \notin DOMAIN Tanks \/ gameState'.tanks[id].deaths > Tanks[id].deaths)
                   => /\ gameState'.tanks[id].spawnProtection
                      /\ { tm \in timers' : tm.kind = "spawnProtection" /\ tm.tank = id }
                            = {SpawnTimer(id, now)}
                      /\ SpawnTimer(id, now).due = now + SPAWN_PROTECTION_TIME
             /\ (/\ id \in DOMAIN Tanks
                 /\ Tanks[id].spawnProtection
                 /\ ~gameState'.tanks[id].spawnProtection)
                   => /\ last'.op = "timeout"
                      /\ SpawnTimersOf(id) = {last'.arg}
                      /\ last'.arg.due <= now ]_vars

(* the protection of a respawn is cleared by its own timer, 5000 ms after  *)
(* the death at 5000 ms                                                    *)
C27_Witness ==
    /\ last.op = "timeout"
    /\ last.arg.due = now
    /\ now = 2 * SPAWN_PROTECTION_TIME
    /\ \E id \in DOMAIN Tanks :
          /\ last.arg.tank = id
          /\ Tanks[id].deaths = 1
          /\ ~Tanks[id].spawnProtection

(* the rows of the scoreboard *)
Rows == gameState.scoreboard

(* C28: when a tick, a message handler or the close handler has run, the   *)
(* scoreboard has one row per tank in the world and no other row, the      *)
(* score and the kills of each row are those of its tank, and the rows are *)
(* in the order of non-increasing score.                                   *)
C28_ScoreboardMatches ==
    /\ Len(Rows) = Cardinality(DOMAIN Tanks)
    /\ { Rows[i].id : i \in 1..Len(Rows) } = DOMAIN Tanks
    /\ \A i \in 1..Len(Rows) :
          /\ Rows[i].id \in DOMAIN Tanks
          /\ Rows[i].score = Tanks[Rows[i].id].score
          /\ Rows[i].kills = Tanks[Rows[i].id].kills
    /\ \A i \in 1..Len(Rows) : \A j \in i..Len(Rows) : Rows[i].score >= Rows[j].score

(* a tick in which the tank that came second into the world killed the     *)
(* first one: its row has moved to the top                                 *)
C28_Witness ==
    /\ last.op = "updateGame"
    /\ Len(Rows) = 2
    /\ Rows[1].id > Rows[2].id
    /\ Rows[1].kills = 1
    /\ Rows[1].score > Rows[2].score

(* C29: when a tick has run, the deaths of each row of the scoreboard are  *)
(* the deaths of its tank.                                                 *)
C29_DeathsMatch ==
    last.op = "updateGame" =>
        \A i \in 1..Len(Rows) :
           Rows[i].id \in DOMAIN Tanks => Rows[i].deaths = Tanks[Rows[i].id].deaths

(* what Tank.respawn leaves of the tank `before` in the tank `after` *)
RespawnedFrom(before, after) ==
    /\ after.hp = Hp(BASE_HEALTH)
    /\ after.hp = after.maxHp
    /\ after.powerups = EmptyMap
    /\ ~after.invincible
    /\ after.spawnProtection
    /\ after.deaths = before.deaths + 1
    /\ [x |-> after.x, y |-> after.y] \in randomPosition
    /\ after.id = before.id
    /\ after.deviceId = before.deviceId
    /\ after.score = before.score
    /\ after.kills = before.kills
    /\ after.name = before.name
    /\ after.ws = before.ws
    /\ after.isBot = before.isBot

(* a tank of the world as it may be when it dies: at 0 hp or below, new or  *)
(* with a score, kills and deaths, with a SPEED stack, and invincible too  *)
Dying(tank) ==
    { [p EXCEPT !.hp = hp, !.score = had.score, !.kills = had.kills, !.deaths = had.deaths] :
        hp \in {0, 0 - Hp(BASE_DAMAGE)},
        had \in { [score |-> 0, kills |-> 0, deaths |-> 0],
                  [score |-> HUMAN_KILL_POINTS + BOT_KILL_POINTS, kills |-> 2, deaths |-> 1] },
        p \in { tank,
                applyPowerup(tank, "SPEED", now).tank,
                applyPowerup(applyPowerup(tank, "SPEED", now).tank,
                             "INVINCIBILITY", now).tank } }

(* C30: a respawn sets the hp of the tank to full, empties its powerups,   *)
(* clears invincible, sets spawnProtection, adds exactly 1 to deaths and   *)
(* puts the tank at a position that randomPosition drew; it leaves the id, *)
(* deviceId, score, kills, name and connection of the tank, and every      *)
(* other tank and every connection, as they were.  That holds of respawn   *)
(* applied to every tank of the world in every state it may have, and of   *)
(* every tank that an explosion has killed.                                *)
C30_RespawnFrame ==
    /\ [](\A id \in DOMAIN Tanks : \A tank \in Dying(Tanks[id]) :
             \A r \in Respawn(SetTank(Begin, tank), id) :
                /\ RespawnedFrom(tank, r.gs.tanks[id])
                /\ DOMAIN r.gs.tanks = DOMAIN Tanks
                /\ \A o \in DOMAIN Tanks \ {id} : r.gs.tanks[o] = Tanks[o]
                /\ r.clients = clients)
    /\ [][ last'.op = "createExplosion" =>
             \A id \in DOMAIN Tanks :
                /\ id \in DOMAIN gameState'.tanks
                /\ gameState'.tanks[id].deaths # Tanks[id].deaths
                      => RespawnedFrom(Tanks[id], gameState'.tanks[id]) ]_vars

(* an explosion has killed a tank of a controller, which has respawned *)
C30_Witness ==
    /\ last.op = "createExplosion"
    /\ \E i \in Frames("tankDeath") :
          LET id == outbox[i].msg.tankId
          IN  /\ id \in DOMAIN Tanks
              /\ Tanks[id].deaths = 1
              /\ Tanks[id].ws \in DOMAIN clients
              /\ Tanks[id].deviceId # <<>>
              /\ Tanks[id].hp = Hp(BASE_HEALTH)

(* the barrels that the candidate position of a tank overlaps, as places   *)
(* in gameState.obstacles                                                  *)
Bumped(tank) ==
    LET stats == getEffectiveStats(tank, now)
        cand == Candidate(stats.tank, stats.speed)
    IN  { i \in 1..Len(gameState.obstacles) :
            /\ gameState.obstacles[i].type = "BARREL"
            /\ DistLt(cand, gameState.obstacles[i],
                      (Px(TANK_SIZE) + Px(gameState.obstacles[i].size)) \div 2) }

(* the step of a tank whose candidate position overlaps a barrel removes   *)
(* the barrel and makes it explode where it stood                          *)
BarrelGoesOff(tank, r) ==
    LET b == CHOOSE i \in Bumped(tank) : \A j \in Bumped(tank) : j <= i
        barrel == gameState.obstacles[b]
    IN  /\ r.gs.obstacles = RemoveAt(gameState.obstacles, b)
        /\ \E i \in 1..Len(r.out) :
              /\ r.out[i].msg.type = "explosion"
              /\ r.out[i].msg.x = barrel.x /\ r.out[i].msg.y = barrel.y
              /\ r.out[i].msg.radius = OBSTACLE_TYPES["BARREL"].explosionRadius

(* the tank is where a respawn put it, protected and at full hp *)
AtRespawnPosition(tank) ==
    /\ [x |-> tank.x, y |-> tank.y] \in randomPosition
    /\ tank.spawnProtection
    /\ tank.hp = Hp(BASE_HEALTH)

(* a tank of the world where it stands or a pixel further, unhurt or at    *)
(* the hp that one more hit takes                                          *)
Driving(tank) ==
    { [tank EXCEPT !.x = @ + dx, !.hp = hp] :
        dx \in {0, Px(1)}, hp \in {Hp(BASE_DAMAGE), Hp(BASE_HEALTH)} }

-----------------------------------------------------------------------------
(* the facings a bot can have before the avoidance of a tick: the one it   *)
(* had, the one a roaming decision turns it to, the one that aims at a     *)
(* player                                                                  *)
Facings(id) ==
    { Tanks[id].angle + turn : turn \in RoamTurnsDrawn \cup {0} }
        \cup { Atan2(Tanks[p].y - Tanks[id].y, Tanks[p].x - Tanks[id].x) :
                  p \in { q \in DOMAIN Tanks : ~Tanks[q].isBot } }

(* C32: on every tick, whether or not the reaction interval has passed,    *)
(* the controller of each bot turns the bot away from the obstacles nearer *)
(* than the avoidance distance and from the map edges nearer than the edge *)
(* margin: the facing of a bot after a tick is what the avoidance makes of *)
(* one of its facings at the place where it stands.                        *)
C32_AvoidsEveryTick ==
    [][last'.op = "updateGame" =>
          \A id \in DOMAIN gameState.bots \cap DOMAIN gameState'.bots :
             \E a \in Facings(id) :
                gameState'.tanks[id].angle =
                   AvoidEdges(AvoidObstacles([gameState'.tanks[id] EXCEPT !.angle = a],
                                             gameState'.obstacles, 1)).angle]_vars

(* the part of C32 that the code has: a tick in which a bot decides ends   *)
(* with the avoidance, and a bot decides at most once per reaction time    *)
C32_AvoidsWhenDeciding ==
    [][last'.op = "updateGame" =>
          \A id \in DOMAIN gameState.bots \cap DOMAIN gameState'.bots :
             LET decided == gameState'.bots[id].lastDecision # gameState.bots[id].lastDecision
             IN  /\ decided =>
                       /\ now - gameState.bots[id].lastDecision >= BOT_REACTION_TIME
                       /\ \E a \in Facings(id) :
                             gameState'.tanks[id].angle =
                                AvoidEdges(AvoidObstacles(
                                   [gameState'.tanks[id] EXCEPT !.angle = a],
                                   gameState'.obstacles, 1)).angle
                 /\ ~decided => gameState'.tanks[id].angle = Tanks[id].angle]_vars

-----------------------------------------------------------------------------
(* the tanks of the world that collide with a thing of the given size *)
TanksAt(thing) ==
    { id \in DOMAIN Tanks : checkCollision(thing, Tanks[id], thing.size, TANK_SIZE) }

(* the obstacle half of C33: a step of the obstacle spawner adds at most   *)
(* one obstacle, and none that collides with a tank of the world           *)
C33_ObstaclesClearOfTanks ==
    [][last'.op = "spawnObstacle" =>
          /\ gameState'.powerups = gameState.powerups
          /\ \/ gameState'.obstacles = gameState.obstacles
             \/ /\ Len(gameState'.obstacles) = Len(gameState.obstacles) + 1
                /\ SubSeq(gameState'.obstacles, 1, Len(gameState.obstacles))
                      = gameState.obstacles
                /\ TanksAt(gameState'.obstacles[Len(gameState'.obstacles)]) = {}]_vars

(* C33: the periodic spawners never add an obstacle or a powerup at a      *)
(* position that collides with a tank existing at spawn time: a step of a  *)
(* spawner adds nothing, or one thing that collides with no tank.          *)
C33_SpawnsClearOfTanks ==
    [][last'.op \in {"spawnObstacle", "spawnPowerup"} =>
          /\ \A i \in 1..Len(gameState'.obstacles) :
                i > Len(gameState.obstacles) => TanksAt(gameState'.obstacles[i]) = {}
          /\ \A i \in 1..Len(gameState'.powerups) :
                i > Len(gameState.powerups) => TanksAt(gameState'.powerups[i]) = {}]_vars

-----------------------------------------------------------------------------
(* C34: in every reachable state the world holds at most MAX_OBSTACLES     *)
(* obstacles and at most MAX_POWERUPS pickups, the pickups that destroyed  *)
(* crates drop counted with those that the timer spawns.                   *)
C34_CapsHold ==
    /\ Len(gameState.obstacles) <= MAX_OBSTACLES
    /\ Len(gameState.powerups) <= MAX_POWERUPS

(* a tick in which a bullet opened a crate of a full map while the world   *)
(* held all the pickups it may hold                                        *)
C34_Witness ==
    /\ last.op = "updateGame"
    /\ \E j \in Frames("obstacleDestroyed") : outbox[j].msg.obstacle.type = "CRATE"
    /\ Len(gameState.obstacles) = MAX_OBSTACLES - 1
    /\ Len(gameState.powerups) = MAX_POWERUPS
    /\ now >= MAX_OBSTACLES * OBSTACLE_SPAWN_INTERVAL

-----------------------------------------------------------------------------
(* the pickups of the world that the last tick did not make: those of the  *)
(* world without the ones that opened crates dropped after the tanks' pass *)
KeptPickups(after, out) ==
    SubSeq(after, 1, Len(after) - Cardinality(FramesOf(out, "powerupSpawn")))

(* the frames with which a tick hands a pickup out *)
HandedOut(out) == FramesOf(out, "powerupCollect") \cup FramesOf(out, "mysteryExplode")

-----------------------------------------------------------------------------
(* the connections attached to a tank id: those whose ws.playerId is it *)
AttachedTo(id) == { k \in DOMAIN clients : clients[k].playerId = id }

(* what adminKick does with the connections attached to the id: each one   *)
(* is closing afterwards, and was sent kicked if it was open               *)
KicksAttached(r, id) ==
    \A k \in AttachedTo(id) :
       /\ r.clients[k].readyState # "OPEN"
       /\ IsOpen(Begin, k) =>
             \E i \in 1..Len(r.out) : r.out[i].to = {k} /\ r.out[i].msg.type = "kicked"

(* C36: adminKick on an admin connection with the id of a tank that is no  *)
(* bot sends kicked to every connection attached to the id and closes it,  *)
(* and the close handler of the tank's active connection then removes the  *)
(* tank; with the id of a bot or an unknown id it changes nothing.         *)
C36_KickRemovesTank ==
    \A c \in DOMAIN clients : \A targetId \in TargetIds :
       (Receiving(c) /\ clients[c].isAdmin) =>
          LET r == OnAdminKick(Begin, c, targetId)
          IN  IF targetId \in DOMAIN Tanks /\ ~Tanks[targetId].isBot
              THEN /\ KicksAttached(r, targetId)
                   /\ Tanks[targetId].ws \in AttachedTo(targetId)
                   /\ targetId \notin DOMAIN OnClose(r, Tanks[targetId].ws).gs.tanks
              ELSE r = Begin

(* the part of C36 that the code has: the kick reaches every connection    *)
(* whose ws.playerId is the id, and nothing else changes; a bot's id or an *)
(* unknown id changes nothing                                              *)
C36_KickClosesAttached ==
    \A c \in DOMAIN clients : \A targetId \in TargetIds :
       (Receiving(c) /\ clients[c].isAdmin) =>
          LET r == OnAdminKick(Begin, c, targetId)
          IN  IF targetId \in DOMAIN Tanks /\ ~Tanks[targetId].isBot
              THEN /\ KicksAttached(r, targetId)
                   /\ r.gs = gameState
                   /\ \A k \in DOMAIN clients \ AttachedTo(targetId) :
                         r.clients[k] = clients[k]
              ELSE r = Begin

-----------------------------------------------------------------------------
(* lo <= v <= hi as the code would test it: false of NaN *)
Within(lo, hi, v) == v # NaN /\ lo <= v /\ v <= hi

(* C37: in every reachable state every tank lies inside the map with a     *)
(* margin of half a tank size: TANK_SIZE/2 <= x <= MAP_WIDTH - TANK_SIZE/2 *)
(* and TANK_SIZE/2 <= y <= MAP_HEIGHT - TANK_SIZE/2.                       *)
C37_TanksInsideMap ==
    \A id \in DOMAIN Tanks :
       /\ Within(Px(TANK_SIZE) \div 2, Px(MAP_WIDTH) - Px(TANK_SIZE) \div 2, Tanks[id].x)
       /\ Within(Px(TANK_SIZE) \div 2, Px(MAP_HEIGHT) - Px(TANK_SIZE) \div 2, Tanks[id].y)

(* the part of C37 that the code has: a coordinate of a tank that is a    *)
(* number lies inside the map with that margin                             *)
C37_InsideOrNaN ==
    \A id \in DOMAIN Tanks :
       /\ Tanks[id].x # NaN =>
             Within(Px(TANK_SIZE) \div 2, Px(MAP_WIDTH) - Px(TANK_SIZE) \div 2, Tanks[id].x)
       /\ Tanks[id].y # NaN =>
             Within(Px(TANK_SIZE) \div 2, Px(MAP_HEIGHT) - Px(TANK_SIZE) \div 2, Tanks[id].y)

-----------------------------------------------------------------------------
(* the ids of the tanks that are bots *)
BotTanks == { id \in DOMAIN Tanks : Tanks[id].isBot }

(* C38: in every reachable state the bots map holds a controller under an  *)
(* id exactly when the tanks map holds a bot tank under that id, and the   *)
(* tank that a controller drives, the one under its id, is that bot.       *)
C38_ControllersAreBotTanks ==
    /\ DOMAIN gameState.bots = BotTanks
    /\ \A id \in DOMAIN gameState.bots :
          /\ Tanks[id].id = id
          /\ Tanks[id].ws = NoConn
          /\ gameState.bots[id].state \in {"roaming", "attacking"}

(* an admin has removed the first of two bots: the second, which has died *)
(* and respawned, and its controller are in the world                      *)
C38_Witness ==
    /\ last.op = "adminRemoveBot"
    /\ FramesOf(outbox, "playerLeft") # {}
    /\ Cardinality(DOMAIN gameState.bots) = 1
    /\ \E id \in DOMAIN gameState.bots : Tanks[id].deaths >= 1 /\ last.arg < id

-----------------------------------------------------------------------------
(* the tank holds an INVINCIBILITY entry in its powerup map *)
HasInvincibility(tank) == "INVINCIBILITY" \in DOMAIN tank.powerups

(* C39: in every reachable state the invincible flag of a tank is set      *)
(* exactly when its powerup map holds an INVINCIBILITY entry.  Applying    *)
(* the powerup sets both, with the entry and invincibilityEnd at the new   *)
(* expiry; a respawn clears both; and the flag goes from set to clear only *)
(* in the callback of a timer, at or after the expiry of the latest        *)
(* application.                                                            *)
C39_InvincibleIffEntry ==
    /\ [](\A id \in DOMAIN Tanks :
             LET applied == applyPowerup(Tanks[id], "INVINCIBILITY", now).tank
             IN  /\ Tanks[id].invincible <=> HasInvincibility(Tanks[id])
                 /\ applied.invincible /\ HasInvincibility(applied)
                 /\ applied.invincibilityEnd = now + DurationMs("INVINCIBILITY")
                 /\ applied.powerups["INVINCIBILITY"].expiresAt = applied.invincibilityEnd
                 /\ \A r \in Respawn(SetTank(Begin, applied), id) :
                       ~r.gs.tanks[id].invincible /\ ~HasInvincibility(r.gs.tanks[id]))
    /\ [][\A id \in DOMAIN Tanks \cap DOMAIN gameState'.tanks :
             (Tanks[id].invincible /\ ~gameState'.tanks[id].invincible) =>
                /\ last'.op = "timeout"
                /\ ~HasInvincibility(gameState'.tanks[id])
                /\ now >= Tanks[id].invincibilityEnd]_vars

(* a tank that took a second INVINCIBILITY while the first lasted is still *)
(* invincible after the timer of the first has fired                       *)
C39_Witness ==
    \E id \in DOMAIN Tanks :
       /\ Tanks[id].invincible /\ HasInvincibility(Tanks[id])
       /\ Tanks[id].invincibilityEnd = 2 * POWERUP_SPAWN_INTERVAL + DurationMs("INVINCIBILITY")
       /\ now >= POWERUP_SPAWN_INTERVAL + DurationMs("INVINCIBILITY")
       /\ \A tm \in timers : tm.kind = "invincibility" => tm.expiresAt = Tanks[id].invincibilityEnd

-----------------------------------------------------------------------------
(* C40: the firmware sends move and fire only while joined, that is after  *)
(* a joined acknowledgment on the present connection and before a          *)
(* disconnect, kicked or banned; it sends esp32Join, and nothing else, on  *)
(* every connection of its socket and at no other time; it sends move only *)
(* from a check of the buttons in which a debounced direction button       *)
(* changed, with the debounced directions in it; and it sends fire only    *)
(* from a check in which the debounced fire button went from released to   *)
(* pressed.                                                                *)
C40_SendsOnlyWhileJoined ==
    [][LET sent == controller'.sent
       IN  /\ \A i \in 1..Len(sent) :
                 /\ sent[i].type \in {"move", "fire"} =>
                       /\ controller'.event = "loop"
                       /\ controller.acked /\ controller.link
                 /\ sent[i].type = "esp32Join" => controller'.event = "connected"
                 /\ sent[i].type = "move" =>
                       /\ \E b \in Directions : controller'.btn[b] # controller.btn[b]
                       /\ sent[i].moving = [b \in Directions |-> controller'.btn[b]]
                 /\ sent[i].type = "fire" =>
                       ~controller.btn["fire"] /\ controller'.btn["fire"]
           /\ controller'.event = "connected" <=> sent = <<[type |-> "esp32Join"]>>
           /\ Cardinality({ i \in 1..Len(sent) : sent[i].type = "move" }) <= 1
           /\ Cardinality({ i \in 1..Len(sent) : sent[i].type = "fire" }) <= 1]_vars

(* a check of the buttons of a controller that was kicked, has connected   *)
(* again and is joined sends a move and a fire                             *)
C40_Witness ==
    /\ controller.event = "loop"
    /\ controller.acked /\ controller.isConnected /\ controller.link
    /\ controller.playerId = 2
    /\ Len(controller.sent) = 2
    /\ controller.sent[1].type = "move" /\ controller.sent[1].moving["up"]
    /\ controller.sent[2].type = "fire"

====
